---- MODULE Spec2Model ----
(***************************************************************************)
(* RetroLens backend: the mutual-follow relationship gate in front of      *)
(* comment and like creation, and the follow endpoints that feed it.       *)
(*                                                                         *)
(* The row store (Supabase) is modelled by its tables: follows and likes   *)
(* are bags of rows (the code never names a uniqueness constraint),        *)
(* comments is the sequence of rows in insertion order, users maps the id  *)
(* of each stored user to its row.  Every handler is an operator that      *)
(* computes, from the current tables, the request and the store call that  *)
(* raises (if any), the HTTP response and the tables it leaves behind; the *)
(* action of the handler applies it.                                       *)
(***************************************************************************)
EXTENDS Integers, Sequences, FiniteSets, Bags, TLC

VARIABLES follows, comments, likes, users, last, inflight,
          cache_store, now, returned, calls, store_order

\* the process-local cache, its clock, what the last cache or feed operation
\* returned and asked of the row store, and the arrangement in which the
\* store hands back the rows of the discussions table
feed_vars == <<cache_store, now, returned, calls, store_order>>

vars == <<follows, comments, likes, users, last, inflight,
          cache_store, now, returned, calls, store_order>>

(***************************************************************************)
(* Bounds of the model.                                                    *)
(***************************************************************************)
\* rows the comments and likes tables hold together
MaxRows == 1
\* rows the follows table holds for one (follower_id, following_id) pair
MaxFollowRows == 2
\* follow requests that are between their check and their insert
MaxInflight == 2
\* entries the process-local cache holds
MaxCacheEntries == 1
\* rows the likes table holds for one (user_id, target) pair
MaxLikeRows == 2

(***************************************************************************)
(* Values.                                                                 *)
(***************************************************************************)
\* Python None
NULL == "null"

\* truthiness of an Optional[str]: None and "" are falsy
Truthy(x) == x # NULL /\ x # ""

\* principals / user ids (opaque strings)
UserIds == {"1", "2"}

\* the discussions table: id -> user_id of the owner
discussions == ("d1" :> "2") @@ ("d2" :> "1") @@ ("d3" :> "2")

\* the cameras table: id -> user_id of the owner
cameras == ("c1" :> "1")

\* ids the store hands out to inserted comments, in insertion order
CommentIds == <<"k1", "k2", "k3", "k4">>

\* the verified claims the identity provider issues for each principal, and
\* one token whose claims carry no subject
current_users ==
    { [sub |-> "1", username |-> "ann", name |-> NULL, email_local |-> "",
       picture |-> "p1", avatar_url |-> NULL],
      [sub |-> "2", username |-> NULL, name |-> NULL, email_local |-> "",
       picture |-> NULL, avatar_url |-> NULL],
      [sub |-> NULL, username |-> NULL, name |-> "x", email_local |-> "x",
       picture |-> NULL, avatar_url |-> NULL] }

\* Python's `a or b`
Or(a, b) == IF Truthy(a) THEN a ELSE b

(***************************************************************************)
(* Row-store queries on follows.                                           *)
(***************************************************************************)
FollowRow(follower_id, following_id) ==
    [follower_id |-> follower_id, following_id |-> following_id]

\* mutant: bool(response) instead of bool(response.data): always true
has_follow_response_truthy(tbl, a, b) == TRUE

\* bool(select("id").eq("follower_id", a).eq("following_id", b).execute().data)
has_follow(tbl, a, b) == CopiesIn(FollowRow(a, b), tbl) > 0

\* delete().eq(...).eq(...): every matching row goes
delete_rows(tbl, rows) == [r \in (DOMAIN tbl) \ rows |-> tbl[r]]

(***************************************************************************)
(* comments.py: the gate and the owner lookup.                             *)
(* err names the store call that raises in this request ("none": no call). *)
(***************************************************************************)
\* mutant: one edge is enough (`or` for `and`)
comments_check_either_edge(tbl, user1_id, user2_id, err) ==
    IF user1_id = user2_id THEN TRUE
    ELSE IF err \in {"follow1", "follow2"} THEN FALSE
    ELSE has_follow(tbl, user1_id, user2_id) \/ has_follow(tbl, user2_id, user1_id)

\* mutant: a failing lookup lets the request through
comments_check_fail_open(tbl, user1_id, user2_id, err) ==
    IF user1_id = user2_id THEN TRUE
    ELSE IF err \in {"follow1", "follow2"} THEN TRUE
    ELSE has_follow(tbl, user1_id, user2_id) /\ has_follow(tbl, user2_id, user1_id)

comments_check_users_follow_each_other(tbl, user1_id, user2_id, err) ==
    IF user1_id = user2_id THEN TRUE
    ELSE IF err \in {"follow1", "follow2"} THEN FALSE
    ELSE has_follow(tbl, user1_id, user2_id) /\ has_follow(tbl, user2_id, user1_id)

comments_get_content_owner_id(discussion_id, camera_id, err) ==
    IF Truthy(discussion_id)
    THEN IF err = "owner" \/ discussion_id \notin DOMAIN discussions
         THEN NULL ELSE discussions[discussion_id]
    ELSE IF Truthy(camera_id)
    THEN IF err = "owner" \/ camera_id \notin DOMAIN cameras
         THEN NULL ELSE cameras[camera_id]
    ELSE NULL

\* lines 147-184: make sure the commenting user has a users row
user_username(cu) == Or(Or(cu.username, cu.name), cu.email_local)
user_avatar(cu) == Or(cu.picture, cu.avatar_url)

ensure_user(tbl, cu, err) ==
    LET uid == cu.sub
    IN  IF uid \notin DOMAIN tbl
        THEN IF err = "users_write" THEN tbl
             ELSE (uid :> [username |-> Or(user_username(cu), "User_"),
                           avatar_url |-> user_avatar(cu)]) @@ tbl
        ELSE LET row == tbl[uid]
                 upd_name == ~Truthy(row.username) /\ Truthy(user_username(cu))
                 upd_avatar == ~Truthy(row.avatar_url) /\ Truthy(user_avatar(cu))
             IN  IF ~(upd_name \/ upd_avatar) \/ err = "users_write" THEN tbl
                 ELSE [tbl EXCEPT ![uid] =
                         [username |-> IF upd_name THEN user_username(cu)
                                       ELSE row.username,
                          avatar_url |-> IF upd_avatar THEN user_avatar(cu)
                                         ELSE row.avatar_url]]

\* mutant: the both-supplied test is missing
comment_target_validation_no_both(comment_data) ==
    IF ~Truthy(comment_data.discussion_id) /\ ~Truthy(comment_data.camera_id)
    THEN "Either discussion_id or camera_id must be provided"
    ELSE "ok"

\* lines 131-136: "ok", or the detail of the 400
comment_target_validation(comment_data) ==
    IF ~Truthy(comment_data.discussion_id) /\ ~Truthy(comment_data.camera_id)
    THEN "Either discussion_id or camera_id must be provided"
    ELSE IF Truthy(comment_data.discussion_id) /\ Truthy(comment_data.camera_id)
    THEN "Cannot specify both discussion_id and camera_id"
    ELSE "ok"

Response(status, detail, c, u) ==
    [status |-> status, detail |-> detail, comments |-> c, users |-> u]

\* mutant: the users row is written before the owner lookup and the gate
create_comment_upsert_first(comment_data, current_user, err) ==
    LET user_id == current_user.sub
        content_owner_id ==
            comments_get_content_owner_id(comment_data.discussion_id,
                                          comment_data.camera_id, err)
        users2 == ensure_user(users, current_user, err)
        row == [id |-> CommentIds[Len(comments) + 1],
                user_id |-> user_id,
                body |-> comment_data.body,
                discussion_id |-> comment_data.discussion_id,
                camera_id |-> comment_data.camera_id,
                parent_id |-> comment_data.parent_id,
                is_edited |-> FALSE]
    IN  IF ~Truthy(user_id)
        THEN Response(401, "User ID not found in token", comments, users)
        ELSE IF comment_target_validation(comment_data) # "ok"
        THEN Response(400, comment_target_validation(comment_data), comments, users)
        ELSE IF ~Truthy(content_owner_id)
        THEN Response(404, "Content not found", comments, users2)
        ELSE IF ~comments_check_users_follow_each_other(follows, user_id,
                                                        content_owner_id, err)
        THEN Response(403, "You can only comment on posts from users you mutually follow",
                      comments, users2)
        ELSE IF err = "users_select"
        THEN Response(400, "store error", comments, users)
        ELSE IF err = "insert"
        THEN Response(400, "store error", comments, users2)
        ELSE IF err = "reselect"
        THEN Response(400, "store error", Append(comments, row), users2)
        ELSE Response(200, "", Append(comments, row), users2)

\* POST /comments
create_comment_result(comment_data, current_user, err) ==
    LET user_id == current_user.sub
        content_owner_id ==
            comments_get_content_owner_id(comment_data.discussion_id,
                                          comment_data.camera_id, err)
        users2 == ensure_user(users, current_user, err)
        row == [id |-> CommentIds[Len(comments) + 1],
                user_id |-> user_id,
                body |-> comment_data.body,
                discussion_id |-> comment_data.discussion_id,
                camera_id |-> comment_data.camera_id,
                parent_id |-> comment_data.parent_id,
                is_edited |-> FALSE]
    IN  IF ~Truthy(user_id)
        THEN Response(401, "User ID not found in token", comments, users)
        ELSE IF comment_target_validation(comment_data) # "ok"
        THEN Response(400, comment_target_validation(comment_data), comments, users)
        ELSE IF ~Truthy(content_owner_id)
        THEN Response(404, "Content not found", comments, users)
        ELSE IF ~comments_check_users_follow_each_other(follows, user_id,
                                                        content_owner_id, err)
        THEN Response(403, "You can only comment on posts from users you mutually follow",
                      comments, users)
        ELSE IF err = "users_select"
        THEN Response(400, "store error", comments, users)
        ELSE IF err = "insert"
        THEN Response(400, "store error", comments, users2)
        ELSE IF err = "reselect"
        THEN Response(400, "store error", Append(comments, row), users2)
        ELSE Response(200, "", Append(comments, row), users2)

CommentIdValues == {NULL, "", "d1", "d9"}
CommentCameraValues == {NULL, "c1"}
CommentRequests ==
    [body : {"b"}, discussion_id : CommentIdValues, camera_id : CommentCameraValues,
     parent_id : {NULL}]
CommentErrs ==
    {"none", "owner", "follow1", "follow2", "users_select", "users_write",
     "insert", "reselect"}

create_comment ==
    \E comment_data \in CommentRequests, current_user \in current_users,
       err \in CommentErrs :
        LET r == create_comment_result(comment_data, current_user, err)
        IN  /\ Len(r.comments) + BagCardinality(likes) <= MaxRows
            /\ comments' = r.comments
            /\ users' = r.users
            /\ last' = [op |-> "create_comment", status |-> r.status,
                        detail |-> r.detail]
            /\ UNCHANGED <<follows, likes, inflight>>
            /\ UNCHANGED feed_vars

(***************************************************************************)
(* comments.py: PUT /comments/{comment_id}, DELETE /comments/{comment_id}. *)
(* The existing-row select ends in .single(): with no matching row the     *)
(* store client hands back a response without data or raises (the owner    *)
(* lookups above guard against both, `if result.data else None` inside     *)
(* try/except).  err names the call that raises: "select" and "write" for  *)
(* a failing store, "no_rows" for single() raising because no row matches. *)
(***************************************************************************)
\* the comments row with this id, as a set (empty: no such row)
comment_rows(comment_id) ==
    {comments[i] : i \in {j \in 1..Len(comments) : comments[j].id = comment_id}}

single_raises(rows, err) == err = "select" \/ (err = "no_rows" /\ rows = {})

\* str(e) of what the handler catches
NoRowsDetail == "no rows"
single_detail(err) == IF err = "no_rows" THEN NoRowsDetail ELSE "store error"

\* PUT /comments/{comment_id}, lines 256-280
update_comment_result(comment_id, comment_data, current_user, err) ==
    LET user_id == current_user.sub
        rows == comment_rows(comment_id)
    IN  IF ~Truthy(user_id)
        THEN Response(401, "User ID not found in token", comments, users)
        ELSE IF single_raises(rows, err)
        THEN Response(400, single_detail(err), comments, users)
        ELSE IF rows = {}
        THEN Response(404, "Comment not found", comments, users)
        ELSE IF (CHOOSE r \in rows : TRUE).user_id # user_id
        THEN Response(403, "You can only edit your own comments", comments, users)
        ELSE IF err = "write"
        THEN Response(400, "store error", comments, users)
        ELSE Response(200, "Comment updated successfully",
                      [i \in DOMAIN comments |->
                          IF comments[i].id = comment_id
                          THEN [comments[i] EXCEPT !.body = comment_data.body,
                                                   !.is_edited = TRUE]
                          ELSE comments[i]],
                      users)

\* delete().eq("id", comment_id): the rows without that id, in their order
RECURSIVE without_id(_, _)
without_id(rows, comment_id) ==
    IF rows = <<>> THEN <<>>
    ELSE (IF Head(rows).id = comment_id THEN <<>> ELSE <<Head(rows)>>)
         \o without_id(Tail(rows), comment_id)

\* DELETE /comments/{comment_id}, lines 289-312
delete_comment_result(comment_id, current_user, err) ==
    LET user_id == current_user.sub
        rows == comment_rows(comment_id)
    IN  IF ~Truthy(user_id)
        THEN Response(401, "User ID not found in token", comments, users)
        ELSE IF single_raises(rows, err)
        THEN Response(400, single_detail(err), comments, users)
        ELSE IF rows = {}
        THEN Response(404, "Comment not found", comments, users)
        ELSE IF (CHOOSE r \in rows : TRUE).user_id # user_id
        THEN Response(403, "You can only delete your own comments", comments, users)
        ELSE IF err = "write"
        THEN Response(400, "store error", comments, users)
        ELSE Response(200, "Comment deleted successfully",
                      without_id(comments, comment_id), users)

\* path ids: the comment the store holds first, and one it never holds
CommentPathIds == {CommentIds[1], "k9"}
CommentUpdates == [body : {"e"}]
CommentEditErrs == {"none", "select", "no_rows", "write"}

update_comment ==
    \E comment_id \in CommentPathIds, comment_data \in CommentUpdates,
       current_user \in current_users, err \in CommentEditErrs :
        LET r == update_comment_result(comment_id, comment_data, current_user, err)
        IN  /\ comments' = r.comments
            /\ last' = [op |-> "update_comment", status |-> r.status,
                        detail |-> r.detail]
            /\ UNCHANGED <<follows, likes, users, inflight>>
            /\ UNCHANGED feed_vars

delete_comment ==
    \E comment_id \in CommentPathIds, current_user \in current_users,
       err \in CommentEditErrs :
        LET r == delete_comment_result(comment_id, current_user, err)
        IN  /\ comments' = r.comments
            /\ last' = [op |-> "delete_comment", status |-> r.status,
                        detail |-> r.detail]
            /\ UNCHANGED <<follows, likes, users, inflight>>
            /\ UNCHANGED feed_vars

(***************************************************************************)
(* follows.py                                                              *)
(***************************************************************************)
FollowResponse(status, detail, f) == [status |-> status, detail |-> detail, follows |-> f]

\* mutant: the existing-row test is missing
create_follow_check_no_existing(follower_id, following_id, err) ==
    IF follower_id = following_id
    THEN FollowResponse(400, "Cannot follow yourself", follows)
    ELSE IF err = "existing"
    THEN FollowResponse(400, "store error", follows)
    ELSE FollowResponse(0, "pass", follows)

\* POST /follows, lines 44-50: what runs before the insert; "pass" lets the
\* insert run
create_follow_check(follower_id, following_id, err) ==
    IF follower_id = following_id
    THEN FollowResponse(400, "Cannot follow yourself", follows)
    ELSE IF err = "existing"
    THEN FollowResponse(400, "store error", follows)
    ELSE IF has_follow(follows, follower_id, following_id)
    THEN FollowResponse(400, "Already following this user", follows)
    ELSE FollowResponse(0, "pass", follows)

\* lines 52-61
create_follow_insert(follower_id, following_id, err) ==
    IF err = "insert"
    THEN FollowResponse(400, "store error", follows)
    ELSE FollowResponse(200, "Follow successful",
                        follows (+) SetToBag({FollowRow(follower_id, following_id)}))

create_follow_result(follower_id, following_id, err) ==
    LET c == create_follow_check(follower_id, following_id, err)
    IN  IF c.status # 0 THEN c
        ELSE create_follow_insert(follower_id, following_id, err)

\* DELETE /follows: the 404 is raised inside the try block whose only handler is
\* `except Exception`, which turns every exception, the HTTPException
\* included, into a 400 carrying str(e)
delete_follow_result(follower_id, following_id, err) ==
    IF err = "delete"
    THEN FollowResponse(400, "store error", follows)
    ELSE IF ~has_follow(follows, follower_id, following_id)
    THEN FollowResponse(400, "404: Follow relationship not found", follows)
    ELSE FollowResponse(200, "Unfollow successful",
                        delete_rows(follows, {FollowRow(follower_id, following_id)}))

create_follow ==
    \E follower_id \in UserIds, following_id \in UserIds, err \in {"none", "existing", "insert"} :
        LET r == create_follow_result(follower_id, following_id, err)
        IN  /\ follows' = r.follows
            /\ last' = [op |-> "create_follow", status |-> r.status, detail |-> r.detail]
            /\ UNCHANGED <<comments, likes, users, inflight>>
            /\ UNCHANGED feed_vars

delete_follow ==
    \E follower_id \in UserIds, following_id \in UserIds, err \in {"none", "delete"} :
        LET r == delete_follow_result(follower_id, following_id, err)
        IN  /\ follows' = r.follows
            /\ last' = [op |-> "delete_follow", status |-> r.status, detail |-> r.detail]
            /\ UNCHANGED <<comments, likes, users, inflight>>
            /\ UNCHANGED feed_vars


(***************************************************************************)
(* users.py: POST /users/{user_id}/follow, DELETE /users/{user_id}/unfollow*)
(* follower_id comes out of an untyped JSON body: the handler compares the *)
(* raw value with the path string and stores str(follower_id).             *)
(***************************************************************************)
\* JSON values a body can hold under "follower_id" (absent: null)
JsonStr(text) == [type |-> "str", text |-> text]
JsonInt(text) == [type |-> "int", text |-> text]
JsonNull == [type |-> "null", text |-> "None"]
FollowerValues == {JsonNull, JsonStr(""), JsonStr("1"), JsonStr("2"), JsonInt("1")}
FollowerStrings == {JsonNull, JsonStr(""), JsonStr("1"), JsonStr("2")}

\* Python truthiness of a JSON value
json_truthy(v) == v.type # "null" /\ v.text \notin {"", "0"}

\* Python's ==  between a str and a JSON value: an int never equals a str
py_eq(s, v) == v.type = "str" /\ v.text = s

\* Python's str()
str(v) == v.text

\* lines 259-270: what runs before the insert; "pass" lets the insert run
follow_user_check(user_id, follower_id, err) ==
    IF ~json_truthy(follower_id)
    THEN FollowResponse(400, "400: follower_id is required", follows)
    ELSE IF py_eq(user_id, follower_id)
    THEN FollowResponse(400, "400: Cannot follow yourself", follows)
    ELSE IF err = "existing"
    THEN FollowResponse(400, "store error", follows)
    ELSE IF has_follow(follows, str(follower_id), user_id)
    THEN FollowResponse(400, "400: Already following this user", follows)
    ELSE FollowResponse(0, "pass", follows)

\* lines 271-277
follow_user_insert(user_id, follower_text, err) ==
    IF err = "insert"
    THEN FollowResponse(400, "store error", follows)
    ELSE FollowResponse(200, "Successfully followed user",
                        follows (+) SetToBag({FollowRow(follower_text, user_id)}))

follow_user_result(user_id, follower_id, err) ==
    LET c == follow_user_check(user_id, follower_id, err)
    IN  IF c.status # 0 THEN c
        ELSE follow_user_insert(user_id, str(follower_id), err)

\* the 404 meets the same `except Exception` as in delete_follow
unfollow_user_result(user_id, follower_id, err) ==
    IF ~json_truthy(follower_id)
    THEN FollowResponse(400, "400: follower_id is required", follows)
    ELSE IF err = "delete"
    THEN FollowResponse(400, "store error", follows)
    ELSE IF ~has_follow(follows, str(follower_id), user_id)
    THEN FollowResponse(400, "404: Follow relationship not found", follows)
    ELSE FollowResponse(200, "Successfully unfollowed user",
                        delete_rows(follows, {FollowRow(str(follower_id), user_id)}))

follow_user ==
    \E user_id \in UserIds, follower_id \in FollowerValues,
       err \in {"none", "existing", "insert"} :
        LET r == follow_user_result(user_id, follower_id, err)
        IN  /\ follows' = r.follows
            /\ last' = [op |-> "follow_user", status |-> r.status, detail |-> r.detail]
            /\ UNCHANGED <<comments, likes, users, inflight>>
            /\ UNCHANGED feed_vars

unfollow_user ==
    \E user_id \in UserIds, follower_id \in FollowerValues, err \in {"none", "delete"} :
        LET r == unfollow_user_result(user_id, follower_id, err)
        IN  /\ follows' = r.follows
            /\ last' = [op |-> "unfollow_user", status |-> r.status, detail |-> r.detail]
            /\ UNCHANGED <<comments, likes, users, inflight>>
            /\ UNCHANGED feed_vars

(***************************************************************************)
(* likes.py                                                                *)
(***************************************************************************)
\* mutant: only the actor -> owner edge is looked up
likes_check_one_direction(tbl, user1_id, user2_id, err) ==
    IF user1_id = user2_id THEN TRUE
    ELSE IF err \in {"follow1", "follow2"} THEN FALSE
    ELSE has_follow(tbl, user1_id, user2_id)

likes_check_users_follow_each_other(tbl, user1_id, user2_id, err) ==
    IF user1_id = user2_id THEN TRUE
    ELSE IF err \in {"follow1", "follow2"} THEN FALSE
    ELSE has_follow(tbl, user1_id, user2_id) /\ has_follow(tbl, user2_id, user1_id)

\* mutant: the comment branch is missing (the comments.py copy of the lookup)
likes_get_content_owner_id_no_comment(discussion_id, camera_id, comment_id, err) ==
    IF Truthy(discussion_id)
    THEN IF err = "owner" \/ discussion_id \notin DOMAIN discussions
         THEN NULL ELSE discussions[discussion_id]
    ELSE IF Truthy(camera_id)
    THEN IF err = "owner" \/ camera_id \notin DOMAIN cameras
         THEN NULL ELSE cameras[camera_id]
    ELSE NULL

likes_get_content_owner_id(discussion_id, camera_id, comment_id, err) ==
    IF Truthy(discussion_id)
    THEN IF err = "owner" \/ discussion_id \notin DOMAIN discussions
         THEN NULL ELSE discussions[discussion_id]
    ELSE IF Truthy(camera_id)
    THEN IF err = "owner" \/ camera_id \notin DOMAIN cameras
         THEN NULL ELSE cameras[camera_id]
    ELSE IF Truthy(comment_id)
    THEN IF err = "owner" \/ comment_rows(comment_id) = {}
         THEN NULL ELSE (CHOOSE r \in comment_rows(comment_id) : TRUE).user_id
    ELSE NULL

\* targets = [...]; non_null_targets = [t for t in targets if t is not None]
non_null_targets(like_data) ==
    Cardinality({f \in {"discussion_id", "camera_id", "comment_id"} :
                    like_data[f] # NULL})

\* mutant: `if not non_null_targets` for `if len(non_null_targets) != 1`
like_targets_valid_at_least_one(like_data) == non_null_targets(like_data) >= 1

\* if len(non_null_targets) != 1: raise 400
like_targets_valid(like_data) == non_null_targets(like_data) = 1

\* .eq("user_id", user_id) and then the if/elif chain over the targets, which
\* adds a filter for the first truthy one (and none when none is truthy)
like_query(tbl, user_id, like_data) ==
    {r \in DOMAIN tbl :
        /\ r.user_id = user_id
        /\ IF Truthy(like_data.discussion_id)
           THEN r.discussion_id = like_data.discussion_id
           ELSE IF Truthy(like_data.camera_id)
           THEN r.camera_id = like_data.camera_id
           ELSE IF Truthy(like_data.comment_id)
           THEN r.comment_id = like_data.comment_id
           ELSE TRUE}

LikeResponse(status, detail, l) == [status |-> status, detail |-> detail, likes |-> l]

\* the row POST /likes inserts (like_insert_data, lines 99-104)
like_insert_data(like_data, user_id) ==
    [user_id |-> user_id,
     discussion_id |-> like_data.discussion_id,
     camera_id |-> like_data.camera_id,
     comment_id |-> like_data.comment_id]

\* POST /likes, lines 60-96: what runs before the insert; "pass" lets the
\* insert run
create_like_check(like_data, current_user, err) ==
    LET user_id == current_user.sub
        content_owner_id ==
            likes_get_content_owner_id(like_data.discussion_id, like_data.camera_id,
                                       like_data.comment_id, err)
    IN  IF ~Truthy(user_id)
        THEN LikeResponse(401, "User ID not found in token", likes)
        ELSE IF ~like_targets_valid(like_data)
        THEN LikeResponse(400, "Exactly one of discussion_id, camera_id, or comment_id must be provided", likes)
        ELSE IF ~Truthy(content_owner_id)
        THEN LikeResponse(404, "Content not found", likes)
        ELSE IF ~likes_check_users_follow_each_other(follows, user_id,
                                                     content_owner_id, err)
        THEN LikeResponse(403, "You can only like posts from users you mutually follow", likes)
        ELSE IF err = "existing"
        THEN LikeResponse(400, "store error", likes)
        ELSE IF like_query(likes, user_id, like_data) # {}
        THEN LikeResponse(400, "Already liked this content", likes)
        ELSE LikeResponse(0, "pass", likes)

\* lines 98-111
create_like_insert(like_data, current_user, err) ==
    IF err = "insert"
    THEN LikeResponse(400, "store error", likes)
    ELSE LikeResponse(200, "Like created successfully",
                      likes (+) SetToBag({like_insert_data(like_data, current_user.sub)}))

\* POST /likes
create_like_result(like_data, current_user, err) ==
    LET c == create_like_check(like_data, current_user, err)
    IN  IF c.status # 0 THEN c
        ELSE create_like_insert(like_data, current_user, err)

\* DELETE /likes
delete_like_result(like_data, current_user, err) ==
    LET user_id == current_user.sub
    IN  IF ~Truthy(user_id)
        THEN LikeResponse(401, "User ID not found in token", likes)
        ELSE IF ~like_targets_valid(like_data)
        THEN LikeResponse(400, "Exactly one of discussion_id, camera_id, or comment_id must be provided", likes)
        ELSE IF err = "delete"
        THEN LikeResponse(400, "store error", likes)
        ELSE IF like_query(likes, user_id, like_data) = {}
        THEN LikeResponse(404, "Like not found", likes)
        ELSE LikeResponse(200, "Like removed successfully",
                          delete_rows(likes, like_query(likes, user_id, like_data)))

LikeRequests ==
    [discussion_id : {NULL, "", "d1"}, camera_id : {NULL, "c1"},
     comment_id : {NULL, "k1", "k9"}]
LikeErrs == {"none", "owner", "follow1", "follow2", "existing", "insert"}

create_like ==
    \E like_data \in LikeRequests, current_user \in current_users, err \in LikeErrs :
        LET r == create_like_result(like_data, current_user, err)
        IN  /\ Len(comments) + BagCardinality(r.likes) <= MaxRows
            /\ likes' = r.likes
            /\ last' = [op |-> "create_like", status |-> r.status, detail |-> r.detail]
            /\ UNCHANGED <<follows, comments, users, inflight>>
            /\ UNCHANGED feed_vars

delete_like ==
    \E like_data \in LikeRequests, current_user \in current_users,
       err \in {"none", "delete"} :
        LET r == delete_like_result(like_data, current_user, err)
        IN  /\ likes' = r.likes
            /\ last' = [op |-> "delete_like", status |-> r.status, detail |-> r.detail]
            /\ UNCHANGED <<follows, comments, users, inflight>>
            /\ UNCHANGED feed_vars

(***************************************************************************)
(* discussions_optimized.py: the process-local cache.                      *)
(* cache_store maps a key to {data, timestamp}; now is datetime.utcnow()   *)
(* in whole seconds (ttl is an int, so age < ttl and floor(age) < ttl      *)
(* agree).                                                                 *)
(***************************************************************************)
\* seconds in a day: timedelta keeps days and seconds apart
SecondsPerDay == 86400

\* the readings of the clock the model visits
Instants == {0, 10, 40, 86410}

\* timedelta(seconds = delta).seconds: the seconds field, 0 .. 86399
timedelta_seconds(delta) == delta % SecondsPerDay

\* an Optional[Any] return value: None, or the payload
None == [found |-> FALSE, data |-> <<>>]
Some(data) == [found |-> TRUE, data |-> data]

\* `if x:` on an Optional[list]: None and [] are falsy
list_truthy(x) == x.found /\ x.data # <<>>

\* the code points of the keyword names, for Python's str ordering
CodePoints ==
    ("limit" :> <<108, 105, 109, 105, 116>>) @@
    ("offset" :> <<111, 102, 102, 115, 101, 116>>) @@
    ("page" :> <<112, 97, 103, 101>>) @@
    ("sortBy" :> <<115, 111, 114, 116, 66, 121>>) @@
    ("sortOrder" :> <<115, 111, 114, 116, 79, 114, 100, 101, 114>>) @@
    ("user_id" :> <<117, 115, 101, 114, 95, 105, 100>>) @@
    ("user_ids" :> <<117, 115, 101, 114, 95, 105, 100, 115>>)

\* a < b for two str, compared code point by code point
RECURSIVE codes_lt(_, _)
codes_lt(a, b) ==
    IF b = <<>> THEN FALSE
    ELSE IF a = <<>> THEN TRUE
    ELSE IF Head(a) # Head(b) THEN Head(a) < Head(b)
    ELSE codes_lt(Tail(a), Tail(b))

str_lt(a, b) == codes_lt(CodePoints[a], CodePoints[b])

\* a JSON array of strings, rendered as json.dumps renders it
RECURSIVE json_items(_)
json_items(items) ==
    IF items = <<>> THEN ""
    ELSE "\"" \o Head(items) \o "\""
         \o (IF Tail(items) = <<>> THEN "" ELSE ", " \o json_items(Tail(items)))

JsonList(items) == [type |-> "list", text |-> "[" \o json_items(items) \o "]"]

\* json.dumps of one value
json_value(v) ==
    IF v.type = "str" THEN "\"" \o v.text \o "\""
    ELSE IF v.type = "null" THEN "null"
    ELSE v.text

\* kwargs is the sequence of <<name, value>> pairs in the order the caller
\* wrote them; sort_keys = True orders the pairs by name
RECURSIVE insert_by_name(_, _)
insert_by_name(pair, sorted) ==
    IF sorted = <<>> THEN <<pair>>
    ELSE IF str_lt(pair[1], Head(sorted)[1]) THEN <<pair>> \o sorted
    ELSE <<Head(sorted)>> \o insert_by_name(pair, Tail(sorted))

RECURSIVE sort_keys(_)
sort_keys(kwargs) ==
    IF kwargs = <<>> THEN <<>>
    ELSE insert_by_name(Head(kwargs), sort_keys(Tail(kwargs)))

RECURSIVE json_pairs(_)
json_pairs(pairs) ==
    IF pairs = <<>> THEN ""
    ELSE "\"" \o Head(pairs)[1] \o "\": " \o json_value(Head(pairs)[2])
         \o (IF Tail(pairs) = <<>> THEN "" ELSE ", " \o json_pairs(Tail(pairs)))

\* json.dumps(kwargs) with the pairs as given
json_dumps(pairs) == "{" \o json_pairs(pairs) \o "}"

\* hashlib.md5(s.encode()).hexdigest(): a digest of the whole string; the
\* model keeps digests of different strings different
md5_hexdigest(s) == "md5(" \o s \o ")"

\* mutant: the parameters are hashed in the order they were supplied
get_cache_key_unsorted(prefix, kwargs) ==
    prefix \o ":" \o md5_hexdigest(json_dumps(kwargs))

get_cache_key(prefix, kwargs) ==
    prefix \o ":" \o md5_hexdigest(json_dumps(sort_keys(kwargs)))

\* the store without key
cache_del(store, key) == [k \in (DOMAIN store) \ {key} |-> store[k]]

\* mutant: a falsy payload is reported as a miss
get_cached_data_truthy(store, key, ttl, t) ==
    IF key \in DOMAIN store
    THEN IF timedelta_seconds(t - store[key].timestamp) < ttl
              /\ store[key].data # <<>>
         THEN [value |-> Some(store[key].data), cache_store |-> store]
         ELSE [value |-> None, cache_store |-> cache_del(store, key)]
    ELSE [value |-> None, cache_store |-> store]

\* the value returned and the cache_store left behind
get_cached_data(store, key, ttl, t) ==
    IF key \in DOMAIN store
    THEN IF timedelta_seconds(t - store[key].timestamp) < ttl
         THEN [value |-> Some(store[key].data), cache_store |-> store]
         ELSE [value |-> None, cache_store |-> cache_del(store, key)]
    ELSE [value |-> None, cache_store |-> store]

\* mutant: an entry that is already there is kept (dict.setdefault)
set_cache_data_keep_first(store, key, data, t) ==
    IF key \in DOMAIN store THEN store
    ELSE (key :> [data |-> data, timestamp |-> t]) @@ store

set_cache_data(store, key, data, t) ==
    [k \in (DOMAIN store) \cup {key} |->
        IF k = key THEN [data |-> data, timestamp |-> t] ELSE store[k]]

(***************************************************************************)
(* The cache as its callers drive it: any handler may derive a key from    *)
(* its parameters, look it up with its ttl, and store a list under it.     *)
(***************************************************************************)
\* the ttl values the handlers pass (30 s pages, 300 s following lists)
TtlValues == {30, 300}

\* keyword parameters, with names that share prefixes and values of each
\* JSON type
CachePairs ==
    { <<"sortBy", JsonStr("title")>>, <<"sortOrder", JsonStr("asc")>>,
      <<"user_id", JsonNull>> }

\* the parameter lists a call can carry: distinct names, any order
CacheKwargs ==
    { kw \in [1..2 -> CachePairs] : kw[1][1] # kw[2][1] }

CachePrefixes == {"discussions", "feed"}

\* payloads: the empty list and a page
CachePayloads == { <<>>, <<"d1">> }

call_set_cache_data ==
    \E prefix \in CachePrefixes, kwargs \in CacheKwargs, data \in CachePayloads :
        LET key == get_cache_key(prefix, kwargs)
            store == set_cache_data(cache_store, key, data, now)
        IN  /\ Cardinality(DOMAIN store) <= MaxCacheEntries
            /\ cache_store' = store
            /\ returned' = None
            /\ last' = [op |-> "set_cache_data", status |-> 0,
                        detail |-> json_dumps(kwargs)]
            /\ UNCHANGED <<follows, comments, likes, users, inflight, now, calls,
                           store_order>>

call_get_cached_data ==
    \E prefix \in CachePrefixes, kwargs \in CacheKwargs, ttl \in TtlValues :
        LET key == get_cache_key(prefix, kwargs)
            r == get_cached_data(cache_store, key, ttl, now)
        IN  /\ cache_store' = r.cache_store
            /\ returned' = r.value
            /\ last' = [op |-> "get_cached_data", status |-> 0,
                        detail |-> json_dumps(kwargs)]
            /\ UNCHANGED <<follows, comments, likes, users, inflight, now, calls,
                           store_order>>

\* time passes
tick ==
    \E t \in Instants :
        /\ t > now
        /\ now' = t
        /\ UNCHANGED <<follows, comments, likes, users, inflight, last,
                       cache_store, returned, calls, store_order>>

(***************************************************************************)
(* discussions_optimized.py: GET /discussions/optimized.                   *)
(***************************************************************************)
\* the rows of the discussions table with the columns the feed reads
discussion_rows ==
    << [id |-> "d1", user_id |-> "2", category_id |-> "7"],
       [id |-> "d2", user_id |-> "1", category_id |-> NULL],
       [id |-> "d3", user_id |-> "2", category_id |-> "7"] >>

\* the discussion_categories table: id -> name
discussion_categories == ("7" :> "film")

\* the arrangements in which the store may hand the rows of a select back;
\* nothing writes the table, so the arrangement stays what it is
StoreOrders == { <<1, 2, 3>>, <<2, 3, 1>> }

\* get_current_user_optional returned None
no_user ==
    [sub |-> NULL, username |-> NULL, name |-> NULL, email_local |-> "",
     picture |-> NULL, avatar_url |-> NULL]

\* `if current_user:`
has_user(current_user) == current_user # no_user

FeedViewers == current_users \cup {no_user}

\* str.lower() on the sortOrder tokens, character by character
TokenChars ==
    ("desc" :> <<"d", "e", "s", "c">>) @@ ("DESC" :> <<"D", "E", "S", "C">>) @@
    ("asc" :> <<"a", "s", "c">>) @@
    ("up" :> <<"u", "p">>)

UpperToLower ==
    ("A" :> "a") @@ ("C" :> "c") @@ ("D" :> "d") @@ ("E" :> "e") @@ ("S" :> "s")

RECURSIVE lower_chars(_)
lower_chars(cs) ==
    IF cs = <<>> THEN ""
    ELSE (IF Head(cs) \in DOMAIN UpperToLower THEN UpperToLower[Head(cs)]
          ELSE Head(cs)) \o lower_chars(Tail(cs))

\* the lower-cased tokens, derived once and kept as a table
lowered == [s \in DOMAIN TokenChars |-> lower_chars(TokenChars[s])] @@ <<>>

str_lower(s) == lowered[s]

\* line 76
valid_sort_fields ==
    {"created_at", "updated_at", "title", "view_count", "comment_count", "like_count"}

\* mutant: the caller's sortBy is used as it came
sort_field_raw(sortBy) == sortBy

\* lines 77-78
sort_field(sortBy) == IF sortBy \notin valid_sort_fields THEN "created_at" ELSE sortBy

\* line 80
sort_desc(sortOrder) == str_lower(sortOrder) = "desc"

\* one call on the row store: the table or function, the order clause (NULL:
\* none), and the number of ids of an in_ filter or an rpc argument
StoreCall(table, order, desc, n) ==
    [table |-> table, order |-> order, desc |-> desc, n |-> n]

\* mutant: the viewer is left out of the key
feed_cache_key_without_viewer(req, current_user) ==
    get_cache_key("discussions",
        << <<"limit", JsonInt(ToString(req.limit))>>,
           <<"offset", JsonInt(ToString(req.offset))>>,
           <<"sortBy", JsonStr(req.sortBy)>>,
           <<"sortOrder", JsonStr(req.sortOrder)>>,
           <<"user_ids", IF req.user_ids = <<>> THEN JsonNull
                         ELSE JsonList(req.user_ids)>> >>)

\* lines 60-68
feed_cache_key(req, current_user) ==
    get_cache_key("discussions",
        << <<"limit", JsonInt(ToString(req.limit))>>,
           <<"offset", JsonInt(ToString(req.offset))>>,
           <<"sortBy", JsonStr(req.sortBy)>>,
           <<"sortOrder", JsonStr(req.sortOrder)>>,
           <<"user_ids", IF req.user_ids = <<>> THEN JsonNull
                         ELSE JsonList(req.user_ids)>>,
           <<"user_id", IF has_user(current_user) /\ current_user.sub # NULL
                        THEN JsonStr(current_user.sub) ELSE JsonNull>> >>)

RECURSIVE seq_filter(_, _)
seq_filter(s, keep) ==
    IF s = <<>> THEN <<>>
    ELSE (IF Head(s) \in keep THEN <<Head(s)>> ELSE <<>>) \o seq_filter(Tail(s), keep)

\* lines 89-108: the rows the store returns for the base query
base_page(req, order) ==
    LET arranged == [i \in 1..Len(order) |-> discussion_rows[order[i]]]
        owners == {req.user_ids[i] : i \in DOMAIN req.user_ids}
        matching == IF req.user_ids # <<>>
                    THEN seq_filter(arranged,
                                    {arranged[i] : i \in {j \in DOMAIN arranged :
                                                           arranged[j].user_id \in owners}})
                    ELSE arranged
        last_index == IF req.offset + req.limit < Len(matching)
                      THEN req.offset + req.limit ELSE Len(matching)
    IN  SubSeq(matching, req.offset + 1, last_index)

\* get_discussion_comment_counts / get_discussion_like_counts (lines 385-406):
\* COUNT(*) ... GROUP BY discussion_id, so an id without rows has no entry
comment_count_of(id) == Cardinality({i \in DOMAIN comments : comments[i].discussion_id = id})
like_count_of(id) ==
    BagCardinality([r \in {x \in DOMAIN likes : x.discussion_id = id} |-> likes[r]])

\* the calls of fetch_users (lines 119-125): one in_ lookup, none without ids
fetch_users(page) ==
    LET user_ids_to_fetch == {page[i].user_id : i \in {j \in DOMAIN page :
                                                         Truthy(page[j].user_id)}}
    IN  IF user_ids_to_fetch = {} THEN <<>>
        ELSE <<StoreCall("users", NULL, FALSE, Cardinality(user_ids_to_fetch))>>

\* the calls of fetch_categories (lines 127-134)
fetch_categories(page) ==
    LET category_ids == {page[i].category_id : i \in {j \in DOMAIN page :
                                                        Truthy(page[j].category_id)}}
    IN  IF category_ids = {} THEN <<>>
        ELSE <<StoreCall("discussion_categories", NULL, FALSE,
                         Cardinality(category_ids))>>

\* mutant: the counts are fetched discussion by discussion
RECURSIVE fetch_stats_per_item(_)
fetch_stats_per_item(page) ==
    IF page = <<>> THEN <<>>
    ELSE <<StoreCall("get_discussion_comment_counts", NULL, FALSE, 1),
           StoreCall("get_discussion_like_counts", NULL, FALSE, 1)>>
         \o fetch_stats_per_item(Tail(page))

\* the calls of fetch_stats (lines 136-158): one rpc for the comment counts
\* and one for the like counts, each with all the ids of the page
fetch_stats(page) ==
    IF page = <<>> THEN <<>>
    ELSE <<StoreCall("get_discussion_comment_counts", NULL, FALSE, Len(page)),
           StoreCall("get_discussion_like_counts", NULL, FALSE, Len(page))>>

\* mutant: the likes of every user count as the viewer's
user_likes_any_user(user_id, ids) ==
    {r.discussion_id : r \in {x \in DOMAIN likes : x.discussion_id \in ids}}

\* lines 171-174
user_likes(user_id, ids) ==
    {r.discussion_id : r \in {x \in DOMAIN likes : x.user_id = user_id
                                                   /\ x.discussion_id \in ids}}

\* lines 178-193
enrich(discussion, liked) ==
    [id |-> discussion.id,
     user_id |-> discussion.user_id,
     category_id |-> discussion.category_id,
     author_username |-> IF discussion.user_id \in DOMAIN users
                         THEN users[discussion.user_id].username ELSE NULL,
     category_name |-> IF discussion.category_id \in DOMAIN discussion_categories
                       THEN discussion_categories[discussion.category_id] ELSE NULL,
     comment_count |-> comment_count_of(discussion.id),
     like_count |-> like_count_of(discussion.id),
     is_liked |-> discussion.id \in liked]

\* an insertion that puts x in front of the items that compare equal to it
RECURSIVE insert_before_equal(_, _, _, _)
insert_before_equal(x, sorted, field, desc) ==
    IF sorted = <<>> THEN <<x>>
    ELSE IF (IF desc THEN Head(sorted)[field] <= x[field]
             ELSE x[field] <= Head(sorted)[field])
    THEN <<x>> \o sorted
    ELSE <<Head(sorted)>> \o insert_before_equal(x, Tail(sorted), field, desc)

\* list.sort(key = ..., reverse = desc): stable in both directions
RECURSIVE insert_sorted(_, _, _, _)
insert_sorted(x, sorted, field, desc) ==
    IF sorted = <<>> THEN <<x>>
    ELSE IF (IF desc THEN Head(sorted)[field] < x[field]
             ELSE x[field] < Head(sorted)[field])
    THEN <<x>> \o sorted
    ELSE <<Head(sorted)>> \o insert_sorted(x, Tail(sorted), field, desc)

\* mutant: a sort that is not stable
RECURSIVE list_sort_unstable(_, _, _)
list_sort_unstable(items, field, desc) ==
    IF items = <<>> THEN <<>>
    ELSE insert_before_equal(items[Len(items)],
                             list_sort_unstable(SubSeq(items, 1, Len(items) - 1),
                                                field, desc),
                             field, desc)

RECURSIVE list_sort(_, _, _)
list_sort(items, field, desc) ==
    IF items = <<>> THEN <<>>
    ELSE insert_sorted(items[Len(items)],
                       list_sort(SubSeq(items, 1, Len(items) - 1), field, desc),
                       field, desc)

FeedSortBy == {"created_at", "comment_count", "like_count", "rank"}
FeedSortOrder == {"desc", "DESC", "asc", "up"}

\* every sortBy and sortOrder on the whole table
FeedSortRequests ==
    {[limit |-> 3, offset |-> 0, sortBy |-> s, sortOrder |-> o, user_ids |-> <<>>] :
        s \in FeedSortBy, o \in FeedSortOrder}

\* the query strings the server receives: the default sort, an aggregate sort
\* in either direction, an unknown sort, a one-row page, and an owner filter
\* that matches no row
FeedRequests ==
    {r \in FeedSortRequests :
        <<r.sortBy, r.sortOrder>> \in
            { <<"created_at", "desc">>, <<"comment_count", "desc">>,
              <<"like_count", "asc">>, <<"rank", "up">> }}
    \cup
    {[limit |-> 1, offset |-> 0, sortBy |-> "created_at", sortOrder |-> "desc",
      user_ids |-> <<>>],
     [limit |-> 3, offset |-> 0, sortBy |-> "created_at", sortOrder |-> "desc",
      user_ids |-> <<"9">>]}

\* the key of every request, derived once and kept as a table
feed_cache_keys ==
    [rc \in (FeedRequests \cup FeedSortRequests) \X FeedViewers |->
        feed_cache_key(rc[1], rc[2])] @@ <<>>

\* the key of a request: looked up in the table, derived when it is not there
page_cache_key(req, current_user) ==
    IF <<req, current_user>> \in DOMAIN feed_cache_keys
    THEN feed_cache_keys[<<req, current_user>>]
    ELSE feed_cache_key(req, current_user)

FeedResponse(status, detail, payload, c, store) ==
    [status |-> status, detail |-> detail, payload |-> payload, calls |-> c,
     cache_store |-> store]

\* mutant: a failing lookup is answered with an empty page
aggregation_failure_degraded(c, store) == FeedResponse(200, "", <<>>, c, store)

\* lines 206-208: the handler's only except clause; c is the calls issued up
\* to the raising one, store the cache as the lookup on entry left it
aggregation_failure(c, store) == FeedResponse(500, "store error", <<>>, c, store)

\* GET /discussions/optimized, started on the cache store.  err names the
\* table or function whose call raises ("none": no call raises)
list_discussions_optimized_on(store, req, current_user, err) ==
    LET cache_key == page_cache_key(req, current_user)
        cached == get_cached_data(store, cache_key, 30, now)
        sortBy == sort_field(req.sortBy)
        desc == sort_desc(req.sortOrder)
        aggregate == sortBy \in {"comment_count", "like_count"}
        base_call == StoreCall("discussions", IF aggregate THEN NULL ELSE sortBy,
                               IF aggregate THEN FALSE ELSE desc, Len(req.user_ids))
        page == base_page(req, store_order)
        discussion_ids == {page[i].id : i \in DOMAIN page}
        logged_in == has_user(current_user) /\ Truthy(current_user.sub)
        likes_calls == IF logged_in
                       THEN <<StoreCall("likes", NULL, FALSE,
                                        Cardinality(discussion_ids))>>
                       ELSE <<>>
        liked == IF logged_in THEN user_likes(current_user.sub, discussion_ids)
                 ELSE {}
        enriched_discussions == [i \in 1..Len(page) |-> enrich(page[i], liked)]
        sorted == IF sortBy = "comment_count"
                  THEN list_sort(enriched_discussions, "comment_count", desc)
                  ELSE IF sortBy = "like_count"
                  THEN list_sort(enriched_discussions, "like_count", desc)
                  ELSE enriched_discussions
        all_calls == IF page = <<>> THEN <<base_call>>
                     ELSE <<base_call>> \o fetch_users(page) \o fetch_categories(page)
                          \o fetch_stats(page) \o likes_calls
        raising == {i \in DOMAIN all_calls : all_calls[i].table = err}
    IN  IF list_truthy(cached.value)
        THEN FeedResponse(200, "", cached.value.data, <<>>, cached.cache_store)
        ELSE IF raising # {}
        THEN aggregation_failure(SubSeq(all_calls, 1, CHOOSE i \in raising : TRUE),
                                 cached.cache_store)
        ELSE IF page = <<>>
        THEN FeedResponse(200, "", <<>>, all_calls,
                          set_cache_data(cached.cache_store, cache_key, <<>>, now))
        ELSE FeedResponse(200, "", sorted, all_calls,
                          set_cache_data(cached.cache_store, cache_key, sorted, now))

\* the handler on the cache of the process
list_discussions_optimized_result(req, current_user, err) ==
    list_discussions_optimized_on(cache_store, req, current_user, err)

\* the calls of a request that can raise: those it issues
raisable(req, current_user) ==
    LET issued == list_discussions_optimized_result(req, current_user, "none").calls
    IN  {"none"} \cup {issued[i].table : i \in DOMAIN issued}

list_discussions_optimized ==
    \E req \in FeedRequests, current_user \in FeedViewers :
      /\ \/ feed_cache_keys[<<req, current_user>>] \in DOMAIN cache_store
         \/ Cardinality(DOMAIN cache_store) < MaxCacheEntries
      /\ \E err \in raisable(req, current_user) :
        LET r == list_discussions_optimized_result(req, current_user, err)
        IN  /\ cache_store' = r.cache_store
            /\ returned' = IF r.status = 200 THEN Some(r.payload) ELSE None
            /\ calls' = r.calls
            /\ last' = [op |-> "list_discussions_optimized", status |-> r.status,
                        detail |-> r.detail]
            /\ UNCHANGED <<follows, comments, likes, users, inflight, now,
                           store_order>>

(***************************************************************************)
(* auth.py: get_current_user_optional, and discussions_optimized.py:       *)
(* GET /discussions/feed/optimized.                                        *)
(***************************************************************************)
\* the Authorization header: absent, or a bearer token that verify_token
\* accepts (giving its claims) or rejects
NoCredentials == [present |-> FALSE, verified |-> FALSE, claims |-> no_user]
Bearer(verified, claims) == [present |-> TRUE, verified |-> verified, claims |-> claims]

FeedCredentials ==
    {NoCredentials}
    \cup {Bearer(TRUE, cu) : cu \in current_users}
    \cup {Bearer(FALSE, cu) : cu \in {c \in current_users : c.sub = "1"}}

\* the headers the server receives: none, the token of principal 1, a token
\* without subject, and a token of principal 1 that fails verification
FeedCallers ==
    {c \in FeedCredentials : ~c.present \/ c.claims.sub # "2"}

\* mutant: the claims of a token are used although verification failed
get_current_user_optional_unverified(credentials) ==
    IF ~credentials.present THEN no_user ELSE credentials.claims

\* auth.py lines 87-95: None without credentials, None when verify_token
\* raises its HTTPException
get_current_user_optional(credentials) ==
    IF ~credentials.present THEN no_user
    ELSE IF ~credentials.verified THEN no_user
    ELSE credentials.claims

\* the order in which the store returns the follows rows of one follower
FollowOrder == <<"1", "2">>

\* lines 242-246: the following_id of every follows row of the follower
RECURSIVE following_of(_, _)
following_of(user_id, ids) ==
    IF ids = <<>> THEN <<>>
    ELSE [i \in 1..CopiesIn(FollowRow(user_id, Head(ids)), follows) |-> Head(ids)]
         \o following_of(user_id, Tail(ids))

\* lines 246-247
resolve_following(user_id) == Append(following_of(user_id, FollowOrder), user_id)

\* line 238
following_cache_key(user_id) == "following:" \o user_id

\* the query strings of the feed
FollowFeedQueries == {[limit |-> 1, page |-> 1], [limit |-> 3, page |-> 0]}

\* line 230
follow_feed_key(q, user_id) ==
    get_cache_key("feed",
        << <<"user_id", JsonStr(user_id)>>,
           <<"page", JsonInt(ToString(q.page))>>,
           <<"limit", JsonInt(ToString(q.limit))>> >>)

\* the feed keys, derived once and kept as a table
follow_feed_keys ==
    [qu \in FollowFeedQueries \X UserIds |-> follow_feed_key(qu[1], qu[2])] @@ <<>>

\* lines 254-261: the call the feed makes on list_discussions_optimized
delegated_request(q, following_ids) ==
    [limit |-> q.limit, offset |-> q.page * q.limit, sortBy |-> "created_at",
     sortOrder |-> "desc", user_ids |-> following_ids]

FollowFeedResponse(status, detail, payload, c, store, delegated) ==
    [status |-> status, detail |-> detail, payload |-> payload, calls |-> c,
     cache_store |-> store, delegated |-> delegated]

\* lines 253-261: the answer of list_discussions_optimized is the feed's
feed_delegated(follows_calls, req, r) ==
    FollowFeedResponse(r.status, r.detail, r.payload, follows_calls \o r.calls,
                       r.cache_store, Some(req))

\* lines 250-261: an empty following list ends the request, any other is
\* handed to list_discussions_optimized
feed_of_following(q, current_user, follows_calls, following_ids, store, err) ==
    IF following_ids = <<>>
    THEN FollowFeedResponse(200, "", <<>>, follows_calls, store, None)
    ELSE feed_delegated(follows_calls, delegated_request(q, following_ids),
                        list_discussions_optimized_on(
                            store, delegated_request(q, following_ids),
                            current_user, err))

\* lines 241-248: the following list, from the cache or from the follows
\* table (and then cached); following is the answer of the cache lookup
feed_resolve_following(q, current_user, following, err) ==
    IF following.value.found
    THEN feed_of_following(q, current_user, <<>>, following.value.data,
                           following.cache_store, err)
    ELSE IF err = "follows"
    THEN FollowFeedResponse(500, "store error", <<>>,
                            <<StoreCall("follows", NULL, FALSE, 1)>>,
                            following.cache_store, None)
    ELSE feed_of_following(q, current_user,
                           <<StoreCall("follows", NULL, FALSE, 1)>>,
                           resolve_following(current_user.sub),
                           set_cache_data(following.cache_store,
                                          following_cache_key(current_user.sub),
                                          resolve_following(current_user.sub), now),
                           err)

\* lines 233-239: a cached feed page is returned as it is; cached is the
\* answer of the cache lookup
feed_after_lookup(q, current_user, cached, err) ==
    IF list_truthy(cached.value)
    THEN FollowFeedResponse(200, "", cached.value.data, <<>>, cached.cache_store,
                            None)
    ELSE feed_resolve_following(
             q, current_user,
             get_cached_data(cached.cache_store,
                             following_cache_key(current_user.sub), 300, now),
             err)

\* lines 221-231: no viewer and no subject are answered with [] before
\* anything else happens
feed_of_viewer(q, current_user, err) ==
    IF ~has_user(current_user)
    THEN FollowFeedResponse(200, "", <<>>, <<>>, cache_store, None)
    ELSE IF ~Truthy(current_user.sub)
    THEN FollowFeedResponse(200, "", <<>>, <<>>, cache_store, None)
    ELSE feed_after_lookup(
             q, current_user,
             get_cached_data(cache_store, follow_feed_keys[<<q, current_user.sub>>],
                             30, now),
             err)

\* GET /discussions/feed/optimized.  err names the table or function whose
\* call raises ("none": no call raises); delegated is the request handed to
\* list_discussions_optimized, if the handler got that far
get_feed_optimized_result(q, credentials, err) ==
    feed_of_viewer(q, get_current_user_optional(credentials), err)

\* the calls of a feed request that can raise: those it issues
feed_raisable(q, credentials) ==
    LET issued == get_feed_optimized_result(q, credentials, "none").calls
    IN  {"none"} \cup {issued[i].table : i \in DOMAIN issued}

\* the keys of the cached pages: every key but the following lists
page_keys(store) == (DOMAIN store) \ {following_cache_key(u) : u \in UserIds}

\* the feed requests the server receives
FollowFeedCalls == {q \in FollowFeedQueries : q.page = 1}

get_feed_optimized ==
    \E q \in FollowFeedCalls, credentials \in FeedCallers :
      \E err \in feed_raisable(q, credentials) \cap {"none", "follows", "discussions"} :
        LET r == get_feed_optimized_result(q, credentials, err)
        IN  /\ Cardinality(page_keys(r.cache_store)) <= MaxCacheEntries
            /\ cache_store' = r.cache_store
            /\ returned' = IF r.status = 200 THEN Some(r.payload) ELSE None
            /\ calls' = r.calls
            /\ last' = [op |-> "get_feed_optimized", status |-> r.status,
                        detail |-> r.detail]
            /\ UNCHANGED <<follows, comments, likes, users, inflight, now,
                           store_order>>

(***************************************************************************)
(* One server process: uvicorn runs the app on one event loop and no       *)
(* handler awaits anything that suspends, so each request is one step.     *)
(***************************************************************************)
Init ==
    /\ follows = EmptyBag
    /\ comments = <<>>
    /\ likes = EmptyBag
    /\ users = ("1" :> [username |-> "", avatar_url |-> ""])
    /\ last = [op |-> "none", status |-> 0, detail |-> ""]
    /\ inflight = {}
    /\ cache_store = <<>>
    /\ now = 0
    /\ returned = None
    /\ calls = <<>>
    /\ store_order = <<1, 2, 3>>

Next ==
    \/ create_follow
    \/ delete_follow
    \/ create_comment
    \/ create_like
    \/ delete_like

Spec == Init /\ [][Next]_vars

(***************************************************************************)
(* The four follow endpoints on their own (same process, same tables).     *)
(***************************************************************************)
NextFollows ==
    \/ create_follow
    \/ delete_follow
    \/ follow_user
    \/ unfollow_user

SpecFollows == Init /\ [][NextFollows]_vars

(***************************************************************************)
(* Several server processes in front of the one store: a follow request is *)
(* two store calls, the existing-row check and the insert, and the calls   *)
(* of different requests interleave.  inflight holds the requests that     *)
(* have passed their check and not yet inserted.                           *)
(***************************************************************************)
free_slots == (1..MaxInflight) \ {q.slot : q \in inflight}

create_follow_begin ==
    \E follower_id \in UserIds, following_id \in UserIds, err \in {"none", "existing"} :
        LET c == create_follow_check(follower_id, following_id, err)
        IN  IF c.status # 0
            THEN /\ last' = [op |-> "create_follow", status |-> c.status,
                             detail |-> c.detail]
                 /\ UNCHANGED <<follows, comments, likes, users, inflight>>
                 /\ UNCHANGED feed_vars
            ELSE /\ free_slots # {}
                 /\ inflight' = inflight \cup
                        {[slot |-> CHOOSE n \in free_slots : TRUE,
                          op |-> "create_follow",
                          follower_id |-> follower_id, following_id |-> following_id]}
                 /\ UNCHANGED <<follows, comments, likes, users, last>>
                 /\ UNCHANGED feed_vars

follow_user_begin ==
    \E user_id \in UserIds, follower_id \in FollowerStrings, err \in {"none", "existing"} :
        LET c == follow_user_check(user_id, follower_id, err)
        IN  IF c.status # 0
            THEN /\ last' = [op |-> "follow_user", status |-> c.status,
                             detail |-> c.detail]
                 /\ UNCHANGED <<follows, comments, likes, users, inflight>>
                 /\ UNCHANGED feed_vars
            ELSE /\ free_slots # {}
                 /\ inflight' = inflight \cup
                        {[slot |-> CHOOSE n \in free_slots : TRUE,
                          op |-> "follow_user",
                          follower_id |-> str(follower_id), following_id |-> user_id]}
                 /\ UNCHANGED <<follows, comments, likes, users, last>>
                 /\ UNCHANGED feed_vars

follow_insert ==
    \E q \in inflight, err \in {"none", "insert"} :
        LET r == IF q.op = "create_follow"
                 THEN create_follow_insert(q.follower_id, q.following_id, err)
                 ELSE follow_user_insert(q.following_id, q.follower_id, err)
        IN  /\ CopiesIn(FollowRow(q.follower_id, q.following_id), r.follows)
                  <= MaxFollowRows
            /\ follows' = r.follows
            /\ inflight' = inflight \ {q}
            /\ last' = [op |-> q.op, status |-> r.status, detail |-> r.detail]
            /\ UNCHANGED <<comments, likes, users>>
            /\ UNCHANGED feed_vars

NextConc ==
    \/ create_follow_begin
    \/ follow_user_begin
    \/ follow_insert
    \/ delete_follow

SpecConc == Init /\ [][NextConc]_vars

(***************************************************************************)
(* The same for likes: POST /likes is the existing-like select and the     *)
(* insert, two store calls of a request that the calls of other requests   *)
(* can fall between; DELETE /likes is one store call.                      *)
(***************************************************************************)
create_like_begin ==
    \E like_data \in LikeRequests, current_user \in current_users,
       err \in {"none", "existing"} :
        LET c == create_like_check(like_data, current_user, err)
        IN  IF c.status # 0
            THEN /\ last' = [op |-> "create_like", status |-> c.status,
                             detail |-> c.detail]
                 /\ UNCHANGED <<follows, comments, likes, users, inflight>>
                 /\ UNCHANGED feed_vars
            ELSE /\ free_slots # {}
                 /\ inflight' = inflight \cup
                        {[slot |-> CHOOSE n \in free_slots : TRUE,
                          op |-> "create_like",
                          like_data |-> like_data, current_user |-> current_user]}
                 /\ UNCHANGED <<follows, comments, likes, users, last>>
                 /\ UNCHANGED feed_vars

like_insert ==
    \E q \in inflight, err \in {"none", "insert"} :
        LET r == create_like_insert(q.like_data, q.current_user, err)
        IN  /\ CopiesIn(like_insert_data(q.like_data, q.current_user.sub), r.likes)
                  <= MaxLikeRows
            /\ likes' = r.likes
            /\ inflight' = inflight \ {q}
            /\ last' = [op |-> q.op, status |-> r.status, detail |-> r.detail]
            /\ UNCHANGED <<follows, comments, users>>
            /\ UNCHANGED feed_vars

NextLikesConc ==
    \/ create_like_begin
    \/ like_insert
    \/ delete_like

SpecLikesConc == Init /\ [][NextLikesConc]_vars

(***************************************************************************)
(* The cache on its own, driven by any caller.                             *)
(***************************************************************************)
NextCache ==
    \/ call_set_cache_data
    \/ call_get_cached_data
    \/ tick

SpecCache == Init /\ [][NextCache]_vars

(***************************************************************************)
(* The comment endpoints of one server process.                            *)
(***************************************************************************)
NextComments ==
    \/ create_comment
    \/ update_comment
    \/ delete_comment

SpecComments == Init /\ [][NextComments]_vars

(***************************************************************************)
(* Concurrent requests on the cache of one process.  get_cached_data and   *)
(* set_cache_data are plain functions without an await, called from        *)
(* coroutines of the one event loop, so each call is one step; the steps   *)
(* of different requests interleave between a request's lookup and its     *)
(* store.  inflight holds the requests that missed and are computing.      *)
(***************************************************************************)
\* the keys the concurrent requests use
ConcKeys ==
    {get_cache_key("discussions", kw) :
        kw \in {k \in CacheKwargs : k[1][1] = "sortBy"}}

\* a request looks its key up; on a miss it goes on to compute data
request_get ==
    \E key \in ConcKeys, ttl \in TtlValues, data \in CachePayloads :
        LET r == get_cached_data(cache_store, key, ttl, now)
        IN  /\ cache_store' = r.cache_store
            /\ returned' = r.value
            /\ last' = [op |-> "get_cached_data", status |-> 0, detail |-> key]
            /\ IF r.value.found
               THEN UNCHANGED inflight
               ELSE /\ free_slots # {}
                    /\ inflight' = inflight \cup
                          {[slot |-> CHOOSE n \in free_slots : TRUE,
                            op |-> "set_cache_data", key |-> key, data |-> data]}
            /\ UNCHANGED <<follows, comments, likes, users, now, calls, store_order>>

\* a request that computed stores its payload
request_set ==
    \E q \in inflight :
        LET store == set_cache_data(cache_store, q.key, q.data, now)
        IN  /\ Cardinality(DOMAIN store) <= MaxCacheEntries
            /\ cache_store' = store
            /\ inflight' = inflight \ {q}
            /\ returned' = None
            /\ last' = [op |-> "set_cache_data", status |-> 0,
                        detail |-> IF q.key \notin DOMAIN cache_store THEN "added"
                                   ELSE IF cache_store[q.key].data = q.data
                                   THEN "replaced by the same payload"
                                   ELSE "replaced by another payload"]
            /\ UNCHANGED <<follows, comments, likes, users, now, calls, store_order>>

NextCacheConc ==
    \/ request_get
    \/ request_set
    \/ tick

SpecCacheConc == Init /\ [][NextCacheConc]_vars

(***************************************************************************)
(* The feed aggregator in one server process, on a store that already      *)
(* holds comments and likes.                                               *)
(***************************************************************************)
InitFeed ==
    /\ follows = EmptyBag
    /\ comments =
          << [id |-> CommentIds[1], user_id |-> "2", body |-> "b",
              discussion_id |-> "d1", camera_id |-> NULL, parent_id |-> NULL,
              is_edited |-> FALSE],
             [id |-> CommentIds[2], user_id |-> "1", body |-> "b",
              discussion_id |-> "d2", camera_id |-> NULL, parent_id |-> NULL,
              is_edited |-> FALSE] >>
    /\ likes = SetToBag({ [user_id |-> "1", discussion_id |-> "d1",
                           camera_id |-> NULL, comment_id |-> NULL],
                          [user_id |-> "2", discussion_id |-> "d3",
                           camera_id |-> NULL, comment_id |-> NULL] })
    /\ users = ("1" :> [username |-> "ann", avatar_url |-> ""])
    /\ last = [op |-> "none", status |-> 0, detail |-> ""]
    /\ inflight = {}
    /\ cache_store = <<>>
    /\ now = 0
    /\ returned = None
    /\ calls = <<>>
    /\ store_order \in StoreOrders

NextFeed ==
    \/ list_discussions_optimized
    \/ tick

SpecFeed == InitFeed /\ [][NextFeed]_vars

(***************************************************************************)
(* The same page asked for by every viewer, so that the cache holds the    *)
(* pages of several viewers side by side.                                  *)
(***************************************************************************)
\* the whole table and its first row, in the default order
ViewerRequests ==
    {r \in FeedRequests : r.sortBy = "created_at" /\ r.user_ids = <<>>}

list_discussions_optimized_viewers ==
    \E req \in ViewerRequests, current_user \in FeedViewers :
      /\ \/ page_cache_key(req, current_user) \in DOMAIN cache_store
         \/ Cardinality(DOMAIN cache_store) <= MaxCacheEntries
      /\ \E err \in raisable(req, current_user) :
        LET r == list_discussions_optimized_result(req, current_user, err)
        IN  /\ cache_store' = r.cache_store
            /\ returned' = IF r.status = 200 THEN Some(r.payload) ELSE None
            /\ calls' = r.calls
            /\ last' = [op |-> "list_discussions_optimized", status |-> r.status,
                        detail |-> r.detail]
            /\ UNCHANGED <<follows, comments, likes, users, inflight, now,
                           store_order>>

InitViewers == InitFeed /\ store_order = <<1, 2, 3>>

NextViewers ==
    \/ list_discussions_optimized_viewers
    \/ tick

SpecViewers == InitViewers /\ [][NextViewers]_vars

(***************************************************************************)
(* The followed-users feed in one server process, next to the follow       *)
(* endpoints that change what it reads.                                    *)
(***************************************************************************)
InitFollowFeed ==
    /\ InitFeed
    /\ store_order = <<1, 2, 3>>

NextFollowFeed ==
    \/ get_feed_optimized
    \/ create_follow
    \/ tick

SpecFollowFeed == InitFollowFeed /\ [][NextFollowFeed]_vars

(***************************************************************************)
(* Properties.                                                             *)
(***************************************************************************)
\* the tokens that carry a subject
AuthUsers == {cu \in current_users : Truthy(cu.sub)}

edge(a, b) == BagIn(FollowRow(a, b), follows)
mutual(a, b) == edge(a, b) /\ edge(b, a)

ExactlyOneDetail == "Exactly one of discussion_id, camera_id, or comment_id must be provided"
CommentValidationDetails ==
    {"Either discussion_id or camera_id must be provided",
     "Cannot specify both discussion_id and camera_id"}
NotFoundDetail == "404: Follow relationship not found"

\* C1: for every pair of principals and every follows table reached, both
\* copies of check_users_follow_each_other answer true exactly when the two
\* ids are equal or both follow rows exist (the lookups not failing); one
\* edge alone gives false, and equal ids give true whatever else holds.
C1_GateIsStrictMutualFollow ==
    \A a \in UserIds, b \in UserIds :
        /\ comments_check_users_follow_each_other(follows, a, b, "none")
              = (a = b \/ (edge(a, b) /\ edge(b, a)))
        /\ likes_check_users_follow_each_other(follows, a, b, "none")
              = (a = b \/ (edge(a, b) /\ edge(b, a)))
        /\ (edge(a, b) /\ ~edge(b, a) /\ a # b) =>
              /\ ~comments_check_users_follow_each_other(follows, a, b, "none")
              /\ ~likes_check_users_follow_each_other(follows, a, b, "none")
        /\ \A err \in {"none", "follow1", "follow2"} :
              /\ comments_check_users_follow_each_other(follows, a, a, err)
              /\ likes_check_users_follow_each_other(follows, a, a, err)

\* a comment request was denied while exactly the edge 1 -> 2 existed
C1_Witness ==
    /\ last.op = "create_comment" /\ last.status = 403
    /\ edge("1", "2") /\ ~edge("2", "1")

\* C2: the gate is symmetric: in every reachable state, for all principals a
\* and b and the same store condition, check(a, b) = check(b, a), in the
\* comments copy and in the likes copy.
C2_GateIsSymmetric ==
    \A a \in UserIds, b \in UserIds, err \in {"none", "follow1", "follow2"} :
        /\ comments_check_users_follow_each_other(follows, a, b, err)
              = comments_check_users_follow_each_other(follows, b, a, err)
        /\ likes_check_users_follow_each_other(follows, a, b, err)
              = likes_check_users_follow_each_other(follows, b, a, err)

\* a like request was denied while exactly the edge 2 -> 1 existed
C2_Witness ==
    /\ last.op = "create_like" /\ last.status = 403
    /\ edge("2", "1") /\ ~edge("1", "2")

\* C3: the gate fails closed: when either follows lookup raises (actor and
\* owner distinct) the gate answers false, POST /comments and POST /likes
\* answer 403 and no comments, likes or users row is written.
C3_GateFailsClosed ==
    /\ \A a \in UserIds, b \in UserIds, err \in {"follow1", "follow2"} :
          a # b => /\ ~comments_check_users_follow_each_other(follows, a, b, err)
                   /\ ~likes_check_users_follow_each_other(follows, a, b, err)
    /\ \A cd \in CommentRequests, cu \in AuthUsers, err \in {"follow1", "follow2"} :
          LET owner == comments_get_content_owner_id(cd.discussion_id, cd.camera_id,
                                                     "none")
              r == create_comment_result(cd, cu, err)
          IN  (comment_target_validation(cd) = "ok" /\ Truthy(owner)
                  /\ owner # cu.sub)
              => (r.status = 403 /\ r.comments = comments /\ r.users = users)
    /\ \A ld \in LikeRequests, cu \in AuthUsers, err \in {"follow1", "follow2"} :
          LET owner == likes_get_content_owner_id(ld.discussion_id, ld.camera_id,
                                                  ld.comment_id, "none")
              r == create_like_result(ld, cu, err)
          IN  (like_targets_valid(ld) /\ Truthy(owner) /\ owner # cu.sub)
              => (r.status = 403 /\ r.likes = likes)

\* a comment request was denied although both edges existed: only a failing
\* lookup denies it then
C3_Witness ==
    /\ last.op = "create_comment" /\ last.status = 403
    /\ mutual("1", "2")

\* C4: the gate reads the follows table as it is when the request runs: in
\* every state reached by any sequence of follows and unfollows, POST /comments
\* by A on a discussion of B (A # B, no store failure) answers 403 and inserts
\* nothing unless both edges exist, and with both edges it answers 200 and
\* appends one row whose user_id is A and whose discussion_id is the target.
C4_GateTracksFollows ==
    \A cd \in CommentRequests, cu \in AuthUsers :
        LET r == create_comment_result(cd, cu, "none")
        IN  (cd.discussion_id \in DOMAIN discussions /\ ~Truthy(cd.camera_id)
                /\ discussions[cd.discussion_id] # cu.sub)
            => IF mutual(cu.sub, discussions[cd.discussion_id])
               THEN /\ r.status = 200
                    /\ Len(r.comments) = Len(comments) + 1
                    /\ SubSeq(r.comments, 1, Len(comments)) = comments
                    /\ r.comments[Len(r.comments)].user_id = cu.sub
                    /\ r.comments[Len(r.comments)].discussion_id = cd.discussion_id
               ELSE r.status = 403 /\ r.comments = comments /\ r.users = users

\* principal 1 commented on the discussion of 2 while they followed each other,
\* an edge was deleted afterwards, and the next comment request got 403
C4_Witness ==
    /\ Len(comments) = 1
    /\ comments[1].user_id = "1" /\ comments[1].discussion_id = "d1"
    /\ ~mutual("1", "2")
    /\ last.op = "create_comment" /\ last.status = 403

\* C5: POST /comments answers 400 and writes nothing when discussion_id and
\* camera_id are both supplied and when neither is (supplied: a non-empty
\* string), whichever store call would fail; with exactly one supplied the
\* request goes on to owner resolution (404 exactly when no owner is found).
C5_CommentTargetValidation ==
    \A cd \in CommentRequests, cu \in AuthUsers, err \in CommentErrs :
        LET r == create_comment_result(cd, cu, err)
            d == Truthy(cd.discussion_id)
            c == Truthy(cd.camera_id)
        IN  IF d = c
            THEN /\ r.status = 400
                 /\ r.detail \in CommentValidationDetails
                 /\ r.comments = comments /\ r.users = users
            ELSE /\ r.detail \notin CommentValidationDetails
                 /\ (r.status = 404) =
                       ~Truthy(comments_get_content_owner_id(cd.discussion_id,
                                                             cd.camera_id, err))

\* a request naming both a discussion and a camera was answered
C5_Witness ==
    /\ last.op = "create_comment" /\ last.status = 400
    /\ last.detail = "Cannot specify both discussion_id and camera_id"

\* C6: POST /likes and DELETE /likes answer 400 and leave the likes table as
\* it is unless exactly one of discussion_id, camera_id, comment_id is
\* non-null: zero, two and three targets are all rejected.
C6_LikeExactlyOneTarget ==
    \A ld \in LikeRequests, cu \in AuthUsers :
        LET n == (IF ld.discussion_id # NULL THEN 1 ELSE 0)
                 + (IF ld.camera_id # NULL THEN 1 ELSE 0)
                 + (IF ld.comment_id # NULL THEN 1 ELSE 0)
        IN  n # 1 =>
              /\ \A err \in LikeErrs :
                    LET r == create_like_result(ld, cu, err)
                    IN  r.status = 400 /\ r.detail = ExactlyOneDetail /\ r.likes = likes
              /\ \A err \in {"none", "delete"} :
                    LET r == delete_like_result(ld, cu, err)
                    IN  r.status = 400 /\ r.detail = ExactlyOneDetail /\ r.likes = likes

\* a DELETE /likes without exactly one target was answered while a like existed
C6_Witness ==
    /\ last.op = "delete_like" /\ last.status = 400 /\ last.detail = ExactlyOneDetail
    /\ BagCardinality(likes) = 1

\* C7: with a valid single target, the owner comes from the table of the
\* target's kind; when that table has no such row the answer is 404 and nothing
\* is written, whatever the follows table holds; a 403 is only ever the gate's
\* answer for the owner of an existing row.
C7_MissingTargetIs404 ==
    /\ \A cd \in CommentRequests, cu \in AuthUsers, err \in CommentErrs :
          LET r == create_comment_result(cd, cu, err)
              found == IF Truthy(cd.discussion_id)
                       THEN cd.discussion_id \in DOMAIN discussions
                       ELSE cd.camera_id \in DOMAIN cameras
              owner == IF Truthy(cd.discussion_id)
                       THEN discussions[cd.discussion_id] ELSE cameras[cd.camera_id]
          IN  Truthy(cd.discussion_id) # Truthy(cd.camera_id) =>
                /\ ~found => (r.status = 404 /\ r.comments = comments
                                 /\ r.users = users)
                /\ (found /\ err = "none") => r.status # 404
                /\ r.status = 403 =>
                      /\ found
                      /\ ~comments_check_users_follow_each_other(follows, cu.sub,
                                                                 owner, err)
    /\ \A ld \in LikeRequests, cu \in AuthUsers, err \in LikeErrs :
          LET r == create_like_result(ld, cu, err)
              found == IF ld.discussion_id # NULL
                       THEN ld.discussion_id \in DOMAIN discussions
                       ELSE IF ld.camera_id # NULL
                       THEN ld.camera_id \in DOMAIN cameras
                       ELSE \E i \in 1..Len(comments) : comments[i].id = ld.comment_id
              owner == IF ld.discussion_id # NULL
                       THEN discussions[ld.discussion_id]
                       ELSE IF ld.camera_id # NULL
                       THEN cameras[ld.camera_id]
                       ELSE comments[CHOOSE i \in 1..Len(comments) :
                                        comments[i].id = ld.comment_id].user_id
          IN  like_targets_valid(ld) =>
                /\ ~found => (r.status = 404 /\ r.likes = likes)
                /\ (found /\ err = "none") => r.status # 404
                /\ r.status = 403 =>
                      /\ found
                      /\ ~likes_check_users_follow_each_other(follows, cu.sub,
                                                              owner, err)

\* a like request for a target that has no row was answered 404 while the
\* principals followed each other
C7_Witness ==
    /\ last.op = "create_like" /\ last.status = 404
    /\ mutual("1", "2")

\* C8: POST /follows answers 400 and leaves the follows table as it is for a
\* self-follow and for a pair whose edge already exists; so does
\* POST /users/{id}/follow.
C8_SelfAndDuplicateFollowRejected ==
    /\ \A f \in UserIds, g \in UserIds, err \in {"none", "existing", "insert"} :
          LET r == create_follow_result(f, g, err)
          IN  (f = g \/ edge(f, g)) => (r.status = 400 /\ r.follows = follows)
    /\ \A user_id \in UserIds, v \in FollowerValues,
          err \in {"none", "existing", "insert"} :
          LET r == follow_user_result(user_id, v, err)
          IN  (py_eq(user_id, v) \/ (json_truthy(v) /\ edge(str(v), user_id)))
              => (r.status = 400 /\ r.follows = follows)

\* a POST /follows for an existing edge was answered
C8_Witness ==
    /\ last.op = "create_follow" /\ last.status = 400
    /\ last.detail = "Already following this user"
    /\ BagCardinality(follows) >= 1

\* C9: DELETE /follows and DELETE /users/{id}/unfollow for a pair that has no
\* edge answer 404.
C9_UnfollowMissingEdgeIs404 ==
    (last.op \in {"delete_follow", "unfollow_user"} /\ last.detail = NotFoundDetail)
        => last.status = 404

\* C10: whatever the interleaving of the follow requests, the follows table
\* holds at most one row per (follower_id, following_id) and no row whose
\* follower_id is its following_id.
C10_FollowRowsUniqueNoSelf ==
    \A row \in DOMAIN follows :
        follows[row] <= 1 /\ row.follower_id # row.following_id

\* C11: cache round trip.  Whatever list is stored under a key, every lookup
\* of that key made while the entry is younger than the caller's ttl returns
\* that list and leaves cache_store as it was; this holds for the entry just
\* written and for every entry the cache holds.
C11_CacheRoundTrip ==
    /\ \A prefix \in CachePrefixes, kwargs \in CacheKwargs, data \in CachePayloads,
          ttl \in TtlValues, t \in Instants :
          LET key == get_cache_key(prefix, kwargs)
              stored == set_cache_data(cache_store, key, data, now)
              r == get_cached_data(stored, key, ttl, t)
          IN  (t >= now /\ t - now < ttl)
              => (r.value = Some(data) /\ r.cache_store = stored)
    /\ \A key \in DOMAIN cache_store, ttl \in TtlValues :
          LET r == get_cached_data(cache_store, key, ttl, now)
          IN  now - cache_store[key].timestamp < ttl
              => (r.value = Some(cache_store[key].data)
                  /\ r.cache_store = cache_store)

\* a lookup returned a stored empty list, some time after it was stored, and
\* the entry is still there
C11_Witness ==
    /\ last.op = "get_cached_data"
    /\ returned = Some(<<>>)
    /\ \E key \in DOMAIN cache_store :
          /\ cache_store[key].data = <<>>
          /\ cache_store[key].timestamp < now

\* C12: lazy expiry.  For every entry whose age is at least the caller's ttl,
\* however large the age, a lookup reports a miss and removes the entry.
C12_ExpiredEntryIsMissAndEvicted ==
    \A key \in DOMAIN cache_store, ttl \in TtlValues :
        LET r == get_cached_data(cache_store, key, ttl, now)
        IN  now - cache_store[key].timestamp >= ttl
            => (r.value = None /\ key \notin DOMAIN r.cache_store)

\* the arrangement of the pairs of kwargs in ascending order of name
canonical(kwargs) ==
    CHOOSE s \in [DOMAIN kwargs -> {kwargs[i] : i \in DOMAIN kwargs}] :
        /\ {s[i] : i \in DOMAIN s} = {kwargs[i] : i \in DOMAIN kwargs}
        /\ \A i \in DOMAIN s, j \in DOMAIN s : i < j => str_lt(s[i][1], s[j][1])

\* C14: key derivation is order-independent.  Two parameter lists with the
\* same pairs give the same key under every namespace, and the key is the
\* namespace, a colon, and the digest of the parameters in name order.
C14_KeyIsOrderIndependent ==
    \A prefix \in CachePrefixes, kw1 \in CacheKwargs :
        /\ get_cache_key(prefix, kw1)
              = prefix \o ":" \o md5_hexdigest(json_dumps(canonical(kw1)))
        /\ \A kw2 \in CacheKwargs :
              {kw1[i] : i \in DOMAIN kw1} = {kw2[i] : i \in DOMAIN kw2}
              => /\ get_cache_key(prefix, kw1) = get_cache_key(prefix, kw2)
                 /\ (get_cache_key(prefix, kw1) \in DOMAIN cache_store
                        => get_cached_data(cache_store,
                                           get_cache_key(prefix, kw2),
                                           300, now).value.found
                           \/ now - cache_store[get_cache_key(prefix, kw1)].timestamp
                                >= 300)

\* a lookup whose parameters were not supplied in name order found an entry
C14_Witness ==
    /\ last.op = "get_cached_data"
    /\ returned.found
    /\ \E kw \in CacheKwargs :
          last.detail = json_dumps(kw) /\ sort_keys(kw) # kw

(***************************************************************************)
(* The feed aggregator.                                                    *)
(***************************************************************************)
\* the response to a request when no store call raises
feed_response(req, current_user) ==
    list_discussions_optimized_result(req, current_user, "none")

\* the entry under the request's key is younger than the 30 s ttl
feed_entry_fresh(req, current_user) ==
    LET key == feed_cache_keys[<<req, current_user>>]
    IN  key \in DOMAIN cache_store /\ now - cache_store[key].timestamp < 30

\* the last request was req from current_user and it was computed, not served
\* from the cache
feed_computed(req, current_user) ==
    LET key == feed_cache_keys[<<req, current_user>>]
    IN  /\ last.op = "list_discussions_optimized" /\ last.status = 200
        /\ calls # <<>>
        /\ key \in DOMAIN cache_store
        /\ cache_store[key].timestamp = now
        /\ returned = Some(cache_store[key].data)

\* C13: an empty result is a cache hit.  While the [] stored under a
\* request's key is younger than 30 s, the same request is answered [] with no
\* row-store query.
C13_EmptyResultIsCacheHit ==
    \A req \in FeedRequests, current_user \in FeedViewers :
        LET key == feed_cache_keys[<<req, current_user>>]
            r == feed_response(req, current_user)
        IN  (feed_entry_fresh(req, current_user) /\ cache_store[key].data = <<>>)
            => (r.status = 200 /\ r.payload = <<>> /\ r.calls = <<>>)

\* C15: aggregator idempotence.  While the payload stored by a call is younger
\* than 30 s, a call with the same parameters and viewer returns that payload
\* and issues no row-store query.
C15_RepeatedCallServedFromCache ==
    \A req \in FeedRequests, current_user \in FeedViewers :
        LET key == feed_cache_keys[<<req, current_user>>]
            r == feed_response(req, current_user)
        IN  feed_entry_fresh(req, current_user)
            => (r.payload = cache_store[key].data /\ Len(r.calls) = 0)

\* the calls of a response on the table or function named
calls_on(r, table) == {i \in DOMAIN r.calls : r.calls[i].table = table}

\* the sort fields the row store can order by
store_sort_fields == {"created_at", "updated_at", "title", "view_count"}

\* C16: the field of every order clause sent to the row store is one of
\* created_at, updated_at, title, view_count; a sortBy outside the six valid
\* names is replaced by created_at; comment_count and like_count are never
\* sent as an order clause.
C16_SortFieldIsAllowListed ==
    \A req \in FeedSortRequests \cup FeedRequests :
        LET r == feed_response(req, no_user)
        IN  /\ \A i \in DOMAIN r.calls :
                  r.calls[i].order # NULL => r.calls[i].order \in store_sort_fields
            /\ (r.calls # <<>> /\ req.sortBy \notin valid_sort_fields)
                  => r.calls[1].order = "created_at"
            /\ req.sortBy \in {"comment_count", "like_count"}
                  => \A i \in DOMAIN r.calls : r.calls[i].order = NULL

\* a request with an unknown sortBy was computed, ordered by created_at
C16_Witness ==
    \E req \in FeedRequests :
        /\ req.sortBy = "rank"
        /\ feed_computed(req, no_user)
        /\ calls[1].table = "discussions" /\ calls[1].order = "created_at"

\* the direction the claim gives a sortOrder token: ascending for a casing of
\* asc, descending for everything else
claimed_desc(sortOrder) == sortOrder \notin {"asc", "ASC", "Asc"}

\* C17: the direction is descending for any casing of desc, ascending for any
\* casing of asc, and descending for an unrecognised token; resolving it never
\* fails the request.
C17_SortDirectionResolution ==
    /\ \A req \in FeedSortRequests : feed_response(req, no_user).status = 200
    /\ \A req \in FeedRequests :
          (feed_computed(req, no_user) /\ calls[1].order # NULL)
          => calls[1].desc = claimed_desc(req.sortOrder)

\* the positions of the page rows in the order the store returned them
store_position(req, id) ==
    LET page == base_page(req, store_order)
    IN  CHOOSE i \in DOMAIN page : page[i].id = id

\* C18: with an aggregate sortBy the returned sequence is ordered by that
\* count, non-increasing for desc and non-decreasing for asc, and items with
\* equal counts keep the order in which the store returned them.
C18_AggregateSortOrderedAndStable ==
    \A req \in FeedSortRequests, current_user \in FeedViewers :
        (req.sortBy \in {"comment_count", "like_count"}
            /\ req.sortOrder \in {"desc", "asc"})
        => LET r == feed_response(req, current_user)
               p == r.payload
           IN  \A i \in DOMAIN p, j \in DOMAIN p :
                 i < j =>
                   /\ req.sortOrder = "desc" => p[i][req.sortBy] >= p[j][req.sortBy]
                   /\ req.sortOrder = "asc" => p[i][req.sortBy] <= p[j][req.sortBy]
                   /\ p[i][req.sortBy] = p[j][req.sortBy]
                        => store_position(req, p[i].id) < store_position(req, p[j].id)

\* a page sorted by comment_count, descending, was computed; it holds two
\* items with the same count and one with a smaller count
C18_Witness ==
    \E req \in FeedRequests :
        /\ req.sortBy = "comment_count" /\ req.sortOrder = "desc"
        /\ feed_computed(req, no_user)
        /\ Len(returned.data) = 3
        /\ returned.data[1].comment_count = returned.data[2].comment_count
        /\ returned.data[2].comment_count > returned.data[3].comment_count

C20_IsLikedMatchesLikesTable ==
    \A req \in FeedRequests, current_user \in FeedViewers :
        LET r == feed_response(req, current_user)
            viewer == current_user.sub
        IN  r.calls # <<>>
            => /\ \A i \in DOMAIN r.payload :
                     r.payload[i].is_liked
                        = (/\ Truthy(viewer)
                           /\ \E row \in DOMAIN likes :
                                 /\ row.user_id = viewer
                                 /\ row.discussion_id = r.payload[i].id)
               /\ Cardinality(calls_on(r, "likes")) <= 1
               /\ \A i \in calls_on(r, "likes") : r.calls[i].n = Len(r.payload)

\* a page was computed for viewer 1, who likes one of its items and not
\* another that someone else likes
C20_Witness ==
    \E req \in FeedRequests, current_user \in FeedViewers :
        /\ current_user.sub = "1"
        /\ feed_computed(req, current_user)
        /\ Cardinality(calls_on([calls |-> calls], "likes")) = 1
        /\ \E i \in DOMAIN returned.data, j \in DOMAIN returned.data :
              /\ returned.data[i].is_liked
              /\ ~returned.data[j].is_liked /\ returned.data[j].like_count > 0

\* the lookups of an aggregation
AggregationLookups ==
    {"discussions", "users", "discussion_categories",
     "get_discussion_comment_counts", "get_discussion_like_counts", "likes"}

\* C21: whenever a lookup that list_discussions_optimized issues fails (the
\* base page, the authors, the categories, either counts call, the viewer's
\* likes), the response is a 500 with a detail and no payload, the handler
\* has written nothing into the cache (the request's key is absent or holds
\* what it held, every other entry is as the lookup on entry left it), and an
\* identical request at any later instant is not served from the cache.
C21_LookupFailureAbortsAggregation ==
    \A req \in FeedRequests, current_user \in FeedViewers :
        \A err \in raisable(req, current_user) \ {"none"} :
            LET r == list_discussions_optimized_result(req, current_user, err)
                cache_key == feed_cache_keys[<<req, current_user>>]
                on_entry == get_cached_data(cache_store, cache_key, 30, now).cache_store
            IN  /\ err \in AggregationLookups
                /\ r.status = 500
                /\ r.detail # ""
                /\ r.payload = <<>>
                /\ r.cache_store = on_entry
                /\ cache_key \in DOMAIN r.cache_store
                      => /\ cache_key \in DOMAIN cache_store
                         /\ r.cache_store[cache_key] = cache_store[cache_key]
                /\ \A t \in {i \in Instants : i >= now} :
                      ~list_truthy(get_cached_data(r.cache_store, cache_key, 30, t).value)

\* C21 witness: a request whose base page and author lookup went through and
\* whose later lookup failed was answered 500, and the cache holds nothing
C21_Witness ==
    /\ last.op = "list_discussions_optimized"
    /\ last.status = 500
    /\ Len(calls) >= 3
    /\ returned = None
    /\ cache_store = <<>>

\* the credentials that carry no verified principal: no header, a token that
\* fails verification, verified claims without a subject
Unverified ==
    {c \in FeedCredentials : ~c.present \/ ~c.verified \/ ~Truthy(c.claims.sub)}

\* C22: get_feed_optimized called without credentials, with a token that
\* fails verification, or with claims that carry no 'sub' answers 200 with
\* the empty list whatever the store would do, issues no row-store call and
\* leaves cache_store exactly as it was (nothing is looked up, so nothing is
\* evicted, and nothing is stored).
C22_UnauthenticatedFeedIsEmpty ==
    \A q \in FollowFeedQueries, credentials \in Unverified :
        \A err \in {"none", "follows"} \cup AggregationLookups :
            LET r == get_feed_optimized_result(q, credentials, err)
            IN  /\ r.status = 200
                /\ r.payload = <<>>
                /\ r.calls = <<>>
                /\ r.cache_store = cache_store
                /\ ~r.delegated.found

\* C22 witness: a feed request was answered with the empty list without any
\* store call while the cache held an entry whose 30 s had run out (a lookup
\* of that key would have evicted it)
C22_Witness ==
    /\ last.op = "get_feed_optimized"
    /\ last.status = 200
    /\ returned = Some(<<>>)
    /\ calls = <<>>
    /\ \E k \in page_keys(cache_store) : now - cache_store[k].timestamp = 40

\* the credentials of the verified principals
Verified == FeedCredentials \ Unverified

\* the entry under key is younger than ttl seconds at the reading of the clock
entry_within_ttl(key, ttl) ==
    /\ key \in DOMAIN cache_store
    /\ now - cache_store[key].timestamp < ttl

\* what C23 says of one feed request in which no lookup fails, given whether
\* the lookup of the following list counts as a hit
following_resolution(q, credentials, hit) ==
    LET viewer == credentials.claims.sub
        key == following_cache_key(viewer)
        r == get_feed_optimized_result(q, credentials, "none")
        from_rows == following_of(viewer, FollowOrder)
        ids == r.delegated.data.user_ids
        owners == {ids[i] : i \in DOMAIN ids}
    IN  /\ r.status = 200
        /\ r.delegated.found
        /\ key \in DOMAIN r.cache_store
        /\ ids = r.cache_store[key].data
        /\ IF hit
           THEN /\ calls_on(r, "follows") = {}
                /\ r.cache_store[key] = cache_store[key]
           ELSE /\ calls_on(r, "follows") = {1}
                /\ ids = from_rows \o <<viewer>>
                /\ r.cache_store[key].timestamp = now
        /\ r.delegated.data.limit = q.limit
        /\ r.delegated.data.offset = q.page * q.limit
        /\ r.delegated.data.sortBy = "created_at"
        /\ sort_desc(r.delegated.data.sortOrder)
        /\ \A i \in DOMAIN r.calls :
              r.calls[i].table = "discussions"
                => r.calls[i].order = "created_at" /\ r.calls[i].desc
        /\ \A i \in DOMAIN r.payload : r.payload[i].user_id \in owners

\* C23: for a verified viewer the followed-id list is resolved through the
\* cache under 'following:<viewer>' with a ttl of 300 s: when the key holds no
\* entry younger than 300 s the follows rows of the viewer are read by one
\* select, the viewer's id is appended once and the list is cached at the
\* current instant; when it holds one, the cached list is used as it is and
\* no follows row is read; list_discussions_optimized is then called with
\* that list as user_ids, offset = page * limit, sortBy created_at,
\* descending, and every discussion returned is owned by a member of the list.
C23_FollowingResolvedThroughCache ==
    \A q \in FollowFeedQueries, credentials \in Verified :
        following_resolution(q, credentials,
            entry_within_ttl(following_cache_key(credentials.claims.sub), 300))

\* the requests that stored their payload in this step
stored_now == inflight \ inflight'

\* C24: in every interleaving of the lookups and stores of concurrent
\* requests, each call completes; an entry of cache_store changes only by
\* being evicted or by one request storing its whole payload with the
\* current instant; a lookup returns a miss or the data of the entry under its
\* key; and a request that stores after another request stored under the
\* same key leaves its own payload there (last write wins).
C24_CacheSafeUnderInterleaving ==
    [][ /\ \A k \in DOMAIN cache_store' :
              \/ k \in DOMAIN cache_store /\ cache_store'[k] = cache_store[k]
              \/ \E q \in stored_now :
                    /\ q.key = k
                    /\ cache_store'[k] = [data |-> q.data, timestamp |-> now]
        /\ \A q \in stored_now :
              /\ q.key \in DOMAIN cache_store'
              /\ cache_store'[q.key].data = q.data
        /\ (last'.op = "get_cached_data" /\ returned'.found)
              => /\ last'.detail \in DOMAIN cache_store
                 /\ returned'.data = cache_store[last'.detail].data
                 /\ cache_store' = cache_store
        /\ \A k \in (DOMAIN cache_store) \ DOMAIN cache_store' :
              last'.op = "get_cached_data" /\ last'.detail = k /\ ~returned'.found
      ]_vars

\* C24 witness: two requests missed the same key and computed different
\* payloads; the second one stored over the entry of the first
C24_Witness ==
    /\ last.op = "set_cache_data"
    /\ last.detail = "replaced by another payload"
    /\ inflight = {}
    /\ \E k \in ConcKeys : k \in DOMAIN cache_store /\ cache_store[k].data = <<>>

\* the gated and follow endpoints
GatedOps == {"create_comment", "create_like", "delete_like", "create_follow",
             "delete_follow"}

\* the store calls whose failure is unexpected: neither a gate lookup nor an
\* owner lookup (those are answered 403 and 404)
UnexpectedCommentErrs == {"users_select", "insert", "reselect"}
UnexpectedLikeErrs == {"existing", "insert"}

\* C25: on POST /comments, POST /likes, DELETE /likes, POST /follows and
\* DELETE /follows a validation error is answered 400, a token without
\* subject 401, a gate denial 403, a missing target, like or follow edge 404,
\* and a row-store failure that is neither a gate lookup nor a not-found 500;
\* every one of these responses carries a detail.
C25_StatusConvention ==
    /\ \A cd \in CommentRequests, cu \in current_users,
          err \in CommentErrs \ UnexpectedCommentErrs :
          LET r == create_comment_result(cd, cu, err)
          IN  /\ r.status \in {200, 400, 401, 403, 404}
              /\ r.status # 200 => r.detail # ""
              /\ r.status = 401 <=> ~Truthy(cu.sub)
              /\ r.status = 400 <=>
                    (Truthy(cu.sub) /\ comment_target_validation(cd) # "ok")
    /\ \A ld \in LikeRequests, cu \in current_users,
          err \in LikeErrs \ UnexpectedLikeErrs :
          LET r == create_like_result(ld, cu, err)
          IN  /\ r.status \in {200, 400, 401, 403, 404}
              /\ r.status # 200 => r.detail # ""
              /\ r.status = 401 <=> ~Truthy(cu.sub)
              /\ r.status = 400 <=>
                    /\ Truthy(cu.sub)
                    /\ \/ ~like_targets_valid(ld)
                       \/ r.detail = "Already liked this content"
    /\ \A ld \in LikeRequests, cu \in current_users :
          LET r == delete_like_result(ld, cu, "none")
          IN  /\ r.status \in {200, 400, 401, 404}
              /\ r.status # 200 => r.detail # ""
              /\ r.status = 401 <=> ~Truthy(cu.sub)
              /\ r.status = 400 <=> (Truthy(cu.sub) /\ ~like_targets_valid(ld))
              /\ r.status = 404 <=>
                    /\ Truthy(cu.sub) /\ like_targets_valid(ld)
                    /\ like_query(likes, cu.sub, ld) = {}
    /\ \A f \in UserIds, g \in UserIds :
          LET r == create_follow_result(f, g, "none")
          IN  /\ r.status \in {200, 400}
              /\ r.status = 400 <=> (f = g \/ edge(f, g))
              /\ r.status # 200 => r.detail # ""
    /\ last.op \in GatedOps =>
          /\ last.status \in {200, 400, 401, 403, 404, 500}
          /\ last.status # 200 => last.detail # ""
          /\ last.detail = NotFoundDetail => last.status = 404
          /\ last.detail = "store error" => last.status = 500

\* C26: PUT and DELETE /comments/{id} by a caller whose subject is not the
\* comment's user_id are answered 403 and leave the comments as they are; for
\* an id without a row the answer is 404; the author's request, and no
\* other, sets body and is_edited on that row or removes it.  Stated for
\* requests in which the store does not fail; an id without a row is
\* answered 404 whichever way the store client reports that no row matched.
C26_OnlyAuthorEditsOrDeletes ==
    /\ (last.op \in {"update_comment", "delete_comment"} /\ last.detail = NoRowsDetail)
          => last.status = 404
    /\ \A comment_id \in CommentPathIds, cu \in AuthUsers :
        LET rows == comment_rows(comment_id)
            owner == (CHOOSE r \in rows : TRUE).user_id
        IN  /\ \A err \in {"none"}, cd \in CommentUpdates :
                  LET r == update_comment_result(comment_id, cd, cu, err)
                  IN  /\ rows = {} => (r.status = 404 /\ r.comments = comments)
                      /\ (rows # {} /\ owner # cu.sub)
                            => (r.status = 403 /\ r.comments = comments)
                      /\ (rows # {} /\ owner = cu.sub)
                            => /\ r.status = 200
                               /\ Len(r.comments) = Len(comments)
                               /\ \A i \in DOMAIN comments :
                                     r.comments[i] =
                                        IF comments[i].id = comment_id
                                        THEN [comments[i] EXCEPT !.body = cd.body,
                                                                 !.is_edited = TRUE]
                                        ELSE comments[i]
            /\ \A err \in {"none"} :
                  LET r == delete_comment_result(comment_id, cu, err)
                  IN  /\ rows = {} => (r.status = 404 /\ r.comments = comments)
                      /\ (rows # {} /\ owner # cu.sub)
                            => (r.status = 403 /\ r.comments = comments)
                      /\ (rows # {} /\ owner = cu.sub)
                            => /\ r.status = 200
                               /\ r.comments = without_id(comments, comment_id)
                               /\ comment_rows(comment_id) # {}

\* the gate and the owner lookup as the two handlers run them
comment_gate_passed(cd, cu, err) ==
    LET owner == comments_get_content_owner_id(cd.discussion_id, cd.camera_id, err)
    IN  /\ Truthy(owner)
        /\ comments_check_users_follow_each_other(follows, cu.sub, owner, err)

like_gate_passed(ld, cu, err) ==
    LET owner == likes_get_content_owner_id(ld.discussion_id, ld.camera_id,
                                            ld.comment_id, err)
    IN  /\ Truthy(owner)
        /\ likes_check_users_follow_each_other(follows, cu.sub, owner, err)

\* C27: POST /comments and POST /likes answered 401, 404, 403 or 400 for a
\* validation error leave users, comments and likes as they were, whichever
\* store call fails; a request changes users, comments or likes only if the
\* token has a subject, the targets are valid, the owner was resolved and
\* check_users_follow_each_other returned true.
C27_WritesOnlyAfterGate ==
    /\ \A cd \in CommentRequests, cu \in current_users, err \in CommentErrs :
          LET r == create_comment_result(cd, cu, err)
              validation == Truthy(cu.sub) /\ comment_target_validation(cd) # "ok"
          IN  /\ (r.status \in {401, 403, 404} \/ validation)
                    => (r.comments = comments /\ r.users = users)
              /\ (r.comments # comments \/ r.users # users)
                    => /\ Truthy(cu.sub)
                       /\ comment_target_validation(cd) = "ok"
                       /\ comment_gate_passed(cd, cu, err)
    /\ \A ld \in LikeRequests, cu \in current_users, err \in LikeErrs :
          LET r == create_like_result(ld, cu, err)
          IN  /\ r.status \in {400, 401, 403, 404} => r.likes = likes
              /\ r.likes # likes
                    => /\ Truthy(cu.sub)
                       /\ like_targets_valid(ld)
                       /\ like_gate_passed(ld, cu, err)

\* C27 witness: principal 2, who had no users row, commented: the request
\* passed the gate, wrote the users row and inserted the comment
C27_Witness ==
    /\ last.op = "create_comment" /\ last.status = 200
    /\ Len(comments) = 1 /\ comments[1].user_id = "2"
    /\ "2" \in DOMAIN users

\* the likes of the caller on the one target the request supplies: the rows
\* whose user_id is the caller and whose column of the non-null field holds
\* the supplied value
supplied_target_rows(like_data, user_id) ==
    {r \in DOMAIN likes :
        /\ r.user_id = user_id
        /\ \A f \in {"discussion_id", "camera_id", "comment_id"} :
              like_data[f] # NULL => r[f] = like_data[f]}

\* C29: for every DELETE /likes request that passes the exactly-one-non-null
\* validation, with any non-null id value (the empty string included), the
\* rows removed are likes of the caller on the supplied target, and every
\* other row of likes is kept with its multiplicity.
C29_DeleteLikeOnlyCallersTarget ==
    \A like_data \in LikeRequests, current_user \in current_users,
       err \in {"none", "delete"} :
        (Truthy(current_user.sub) /\ like_targets_valid(like_data))
            => LET r == delete_like_result(like_data, current_user, err)
               IN  /\ (DOMAIN likes) \ (DOMAIN r.likes)
                        \subseteq supplied_target_rows(like_data, current_user.sub)
                   /\ \A row \in DOMAIN r.likes :
                          row \in DOMAIN likes /\ r.likes[row] = likes[row]

\* C30: a user likes a target at most once.  POST /likes for a (user, target)
\* whose like row exists answers 400 'Already liked this content', and under
\* every interleaving of POST /likes and DELETE /likes requests the likes
\* table holds at most one row per (user_id, target).
C30_AtMostOneLikePerTarget ==
    /\ \A like_data \in LikeRequests, current_user \in current_users :
          LET r == create_like_result(like_data, current_user, "none")
          IN  (/\ Truthy(current_user.sub) /\ like_targets_valid(like_data)
               /\ like_gate_passed(like_data, current_user, "none")
               /\ like_insert_data(like_data, current_user.sub) \in DOMAIN likes)
                  => (r.status = 400 /\ r.detail = "Already liked this content"
                      /\ r.likes = likes)
    /\ \A row \in DOMAIN likes : likes[row] <= 1

\* the discussions the viewer has liked, by the likes table (anonymous and
\* subject-less viewers have liked none)
liked_by(current_user) ==
    IF has_user(current_user) /\ Truthy(current_user.sub)
    THEN {r.discussion_id : r \in {x \in DOMAIN likes : x.user_id = current_user.sub}}
    ELSE {}

\* C28: viewer isolation of cached pages.  Two requests that differ in the
\* viewer's subject have different cache keys, and whatever the cache holds
\* and in whatever order the requests came, every page answered to a viewer
\* carries that viewer's own is_liked flags (all false for an anonymous
\* request), never those computed for another viewer.
C28_ViewerIsolation ==
    /\ \A req \in ViewerRequests \cup FeedRequests, v1 \in FeedViewers,
          v2 \in FeedViewers :
          v1.sub # v2.sub => page_cache_key(req, v1) # page_cache_key(req, v2)
    /\ \A req \in ViewerRequests \cup FeedRequests, current_user \in FeedViewers :
          LET r == list_discussions_optimized_result(req, current_user, "none")
          IN  r.status = 200
              => \A i \in DOMAIN r.payload :
                    r.payload[i].is_liked = (r.payload[i].id \in liked_by(current_user))

\* C28 witness: the cache holds the same page for principal 1 and for
\* principal 2, with different flags, and the last request was answered from
\* principal 2's entry
C28_Witness ==
    \E req \in ViewerRequests, v1 \in current_users, v2 \in current_users :
        LET k1 == page_cache_key(req, v1)
            k2 == page_cache_key(req, v2)
        IN  /\ v1.sub = "1" /\ v2.sub = "2"
            /\ k1 \in DOMAIN cache_store /\ k2 \in DOMAIN cache_store
            /\ cache_store[k1].data # cache_store[k2].data
            /\ last.op = "list_discussions_optimized" /\ last.status = 200
            /\ calls = <<>>
            /\ returned = Some(cache_store[k2].data)
====
